---- MODULE Spec2Model ----
(***************************************************************************)
(* Model of swampymud/util/parser.py: the command-grammar parser           *)
(* (_parse_grammar and Group), the Thompson construction (class NFA), the  *)
(* two executors NFA.matches and NFA.annotate, the lazily built nfa        *)
(* property of a Grammar, and the tokenizer split_args.                    *)
(*                                                                         *)
(* Spec is one grammar string parsed, compiled and used for a series of    *)
(* command lines; ConcSpec is the first use of a parsed grammar by two     *)
(* callers at once; SplitSpec is one call of split_args; BuildSpec is a    *)
(* series of calls of the NFA builders on tables kept as Python objects.   *)
(*                                                                         *)
(* A grammar string is a sequence of lexemes: single-letter words and the  *)
(* delimiters of _grammar_token_re.  The variable tokens holds the list    *)
(* re.split produces for the part of the string scanned so far.  Table     *)
(* indices are the 0-based indices of the Python lists; state i of a table *)
(* is table[i + 1].                                                        *)
(***************************************************************************)
EXTENDS Integers, Sequences, FiniteSets, TLC

VARIABLES pc, tokens, stack, err, ast, nfa, input, mres, ares,
          string, in_quote, in_token, split_tokens, split_ret,
          builds, nfa_id, caller,
          heap, built, failed

vars == <<pc, tokens, stack, err, ast, nfa, input, mres, ares,
          string, in_quote, in_token, split_tokens, split_ret,
          builds, nfa_id, caller,
          heap, built, failed>>
\* the executions of to_nfa on the grammar, the identity of the table object
\* kept in _nfa (0 when there is none; the n-th table built is object n), and
\* the callers that read the nfa property at the same time
cacheVars == <<builds, nfa_id, caller>>
\* the objects of the NFA builders (dicts and lists, an object's identity is
\* its position), the tables of the NFA objects built so far, and whether the
\* last builder call raised
heapVars == <<heap, built, failed>>
\* the locals of _parse_grammar and the results of a Grammar
grammarVars == <<tokens, stack, err, ast, nfa, input, mres, ares>>
\* the argument, the locals and the result of split_args
splitVars == <<string, in_quote, in_token, split_tokens, split_ret>>

\* ---------------------------------------------------------------- bounds
MaxGLen == 5    \* lexemes of a grammar string
MaxTLen == 3    \* tokens of a command line
MaxSLen == 5    \* characters of a string given to split_args

\* ------------------------------------------------------------- alphabets
LowerWords == {"a", "b"}          \* words for which str.islower() holds
UpperWords == {"X"}               \* words for which str.isupper() holds
OtherWords == {"aX"}              \* neither islower() nor isupper()
Words == LowerWords \cup UpperWords \cup OtherWords
NoneTok == "<None>"               \* re.split yields None for whitespace
Captured == {"(", ")", "|", "*", "+", "?"}
Delims == Captured \cup {NoneTok}
InputWords == {"a", "b"}          \* words of a command line
Quotes == {"\"", "'"}              \* char in "\"'"
Whitespace == {" ", "\t"}          \* among the characters of " \t\n\r"
Letters == {"a"}                  \* any other character
Chars == Quotes \cup Whitespace \cup Letters

Last(s) == s[Len(s)]
Front(s) == SubSeq(s, 1, Len(s) - 1)

\* ------------------------------------------------------------ Token enum
EPSILON == "Token.EPSILON"
ANY == "Token.ANY"
END == "Token.END"
NOTHING == "Token.NOTHING"
EMIT == "Token.EMIT"
Markers == {EPSILON, ANY, END, NOTHING, EMIT}

\* ------------------------------------------------------------------- AST
Keyword(w) == [type |-> "Keyword", inner |-> w]
Variable(w) == [type |-> "Variable", inner |-> w]
Star(e) == [type |-> "Star", inner |-> e]
Plus(e) == [type |-> "Plus", inner |-> e]
Optional(e) == [type |-> "Optional", inner |-> e]
Group(args, alts) == [type |-> "Group", args |-> args, alts |-> alts]
NoRule == [type |-> "None", inner |-> ""]
Quantifiers == {"Star", "Plus", "Optional"}

NoErr == [msg |-> "", index |-> -1, count |-> -1]
Raise(msg, index, count) == [msg |-> msg, index |-> index, count |-> count]

\* Group.add
add(g, arg) == [g EXCEPT !.args = Append(@, arg)]

\* quantify_last that wraps a sibling that already has a quantifier
quantify_last_Stacking(g, q) ==
    IF g.args # <<>>
    THEN [group |-> [g EXCEPT !.args = Append(Front(@), [type |-> q, inner |-> Last(g.args)])],
          msg |-> ""]
    ELSE [group |-> g, msg |-> "Expected predicate before quantifier"]

\* Group.quantify_last: the group and the message of the ValueError ("" when
\* none is raised)
quantify_last(g, q) ==
    IF g.args # <<>>
    THEN IF Last(g.args).type \notin Quantifiers
         THEN [group |-> [g EXCEPT !.args = Append(Front(@), [type |-> q, inner |-> Last(g.args)])],
               msg |-> ""]
         ELSE [group |-> g, msg |-> "Predicate already has quantifier"]
    ELSE [group |-> g, msg |-> "Expected predicate before quantifier"]

\* add_alternative that closes an alternative with nothing in it
add_alternative_AllowsEmpty(g) ==
    [group |-> Group(<<>>, Append(g.alts, g.args)), msg |-> ""]

\* Group.add_alternative
add_alternative(g) ==
    IF g.args = <<>>
    THEN [group |-> g, msg |-> "empty alternative"]
    ELSE [group |-> Group(<<>>, Append(g.alts, g.args)), msg |-> ""]

\* cleanup that detects neither an empty group nor an empty alternate
cleanup_NoCheck(g) ==
    IF g.alts # <<>>
    THEN [group |-> Group(<<>>, Append(g.alts, g.args)), msg |-> ""]
    ELSE [group |-> g, msg |-> ""]

\* Group.cleanup
cleanup(g) ==
    IF g.args = <<>>
    THEN IF g.alts # <<>>
         THEN [group |-> g, msg |-> "empty alternate"]
         ELSE [group |-> g, msg |-> "empty group"]
    ELSE IF g.alts # <<>>
         THEN [group |-> Group(<<>>, Append(g.alts, g.args)), msg |-> ""]
         ELSE [group |-> g, msg |-> ""]

\* len(s) if s else 0, for the entries of the re.split list
TokLen(s) == IF s \in {"", NoneTok} THEN 0 ELSE IF s = "aX" THEN 2 ELSE 1

\* _string_index: prev is the length of the previous entry, not the running sum
_string_index(tok_index, toks) ==
    LET pre == SubSeq(toks, 1, tok_index)
        cumsum == [k \in 1..Len(pre) |->
                     TokLen(pre[k]) + (IF k = 1 THEN 0 ELSE TokLen(pre[k - 1]))]
    IN IF cumsum # <<>> THEN cumsum[Len(cumsum)] ELSE 0

\* the entries re.split puts in front of the next lexeme: the empty text
\* piece before a delimiter that does not follow a word
LastIn(toks, S) == IF toks = <<>> THEN FALSE ELSE Last(toks) \in S

Filler(toks, lex) ==
    IF lex \in Delims /\ ~LastIn(toks, Words) THEN <<"">> ELSE <<>>

NumLexemes(toks) == Cardinality({i \in 1..Len(toks) : toks[i] # ""})

WithTop(stk, g) == [stk EXCEPT ![Len(stk)] = g]

\* the loop body in which a ')' met at the root closes nothing and goes on
Dispatch_RootCloses(stk, token, tok_index, toks) ==
    LET top == Last(stk)
        quant(q) == LET r == quantify_last(top, q)
                    IN [stack |-> WithTop(stk, r.group), err |-> Raise(r.msg, -1, -1)]
    IN IF token \in LowerWords
       THEN [stack |-> WithTop(stk, add(top, Keyword(token))), err |-> NoErr]
       ELSE IF token \in UpperWords
       THEN [stack |-> WithTop(stk, add(top, Variable(token))), err |-> NoErr]
       ELSE IF token = "("
       THEN [stack |-> Append(stk, Group(<<>>, <<>>)), err |-> NoErr]
       ELSE IF token = ")"
       THEN LET rest == Front(stk)
                c == cleanup(top)
            IN IF c.msg # ""
               THEN [stack |-> rest, err |-> Raise(c.msg, -1, -1)]
               ELSE IF rest # <<>>
               THEN [stack |-> WithTop(rest, add(Last(rest), c.group)), err |-> NoErr]
               ELSE [stack |-> <<c.group>>, err |-> NoErr]
       ELSE IF token = "|"
       THEN LET r == add_alternative(top)
            IN [stack |-> WithTop(stk, r.group), err |-> Raise(r.msg, -1, -1)]
       ELSE IF token = "*" THEN quant("Star")
       ELSE IF token = "+" THEN quant("Plus")
       ELSE IF token = "?" THEN quant("Optional")
       ELSE [stack |-> stk,
             err |-> Raise("Unrecognized token", _string_index(tok_index, toks), -1)]

\* one iteration of the for loop of _parse_grammar on a non-empty token:
\* the new stack and the error raised
Dispatch(stk, token, tok_index, toks) ==
    LET top == Last(stk)
        quant(q) == LET r == quantify_last(top, q)
                    IN [stack |-> WithTop(stk, r.group), err |-> Raise(r.msg, -1, -1)]
    IN IF token \in LowerWords
       THEN [stack |-> WithTop(stk, add(top, Keyword(token))), err |-> NoErr]
       ELSE IF token \in UpperWords
       THEN [stack |-> WithTop(stk, add(top, Variable(token))), err |-> NoErr]
       ELSE IF token = "("
       THEN [stack |-> Append(stk, Group(<<>>, <<>>)), err |-> NoErr]
       ELSE IF token = ")"
       THEN LET rest == Front(stk)
                c == cleanup(top)
            IN IF c.msg # ""
               THEN [stack |-> rest, err |-> Raise(c.msg, -1, -1)]
               ELSE IF rest # <<>>
               THEN [stack |-> WithTop(rest, add(Last(rest), c.group)), err |-> NoErr]
               ELSE [stack |-> rest,
                     err |-> Raise("Unmatched ')'", _string_index(tok_index, toks), -1)]
       ELSE IF token = "|"
       THEN LET r == add_alternative(top)
            IN [stack |-> WithTop(stk, r.group), err |-> Raise(r.msg, -1, -1)]
       ELSE IF token = "*" THEN quant("Star")
       ELSE IF token = "+" THEN quant("Plus")
       ELSE IF token = "?" THEN quant("Optional")
       ELSE [stack |-> stk,
             err |-> Raise("Unrecognized token", _string_index(tok_index, toks), -1)]

\* ------------------------------------------------------------------- NFA
\* A state of the table is the dict of the code: emit holds the value of the
\* Token.EMIT key (<<>> when absent), eps the list of the Token.EPSILON key
\* (the key is present iff the list is non-empty: every place that creates
\* it appends to it), edges the other keys with their successor.
State(emit, eps, edges) == [emit |-> emit, eps |-> eps, edges |-> edges]
EmptyState == State(<<>>, <<>>, <<>>)
Edge(tok, to) == [tok |-> tok, to |-> to]

\* the ValueError of _add_epsilon, kept in the table that was being built
ValueErrorMark == [type |-> "ValueError", inner |-> "Cannot add epsilon transition to state with matches"]
Raised(table) == \E i \in 1..Len(table) : table[i].emit = <<ValueErrorMark>>

HasKey(state, tok) == \E k \in 1..Len(state.edges) : state.edges[k].tok = tok
Get(state, tok) == state.edges[CHOOSE k \in 1..Len(state.edges) : state.edges[k].tok = tok].to

\* _add_epsilon without the test for matches
_add_epsilon_Unchecked(from_state, to_index) ==
    State(from_state.emit, Append(from_state.eps, to_index), from_state.edges)

\* _add_epsilon
_add_epsilon(from_state, to_index) ==
    IF from_state.edges # <<>>
    THEN State(<<ValueErrorMark>>, <<>>, <<>>)
    ELSE State(from_state.emit, Append(from_state.eps, to_index), from_state.edges)

\* _add_epsilon(table[-1], to_index)
AddEpsilonLast(table, to_index) ==
    Append(Front(table), _add_epsilon(Last(table), to_index))

\* NFA._shift_table
RECURSIVE ShiftIndices(_, _)
ShiftIndices(indices, shift_by) ==
    IF indices = <<>> THEN <<>>
    ELSE <<indices[1] + shift_by>> \o ShiftIndices(Tail(indices), shift_by)

\* a shift that leaves the consuming successors as they were
ShiftEdges_Unshifted(edges, shift_by) == edges

RECURSIVE ShiftEdges(_, _)
ShiftEdges(edges, shift_by) ==
    IF edges = <<>> THEN <<>>
    ELSE <<Edge(edges[1].tok, edges[1].to + shift_by)>> \o ShiftEdges(Tail(edges), shift_by)

ShiftState(state, shift_by) ==
    IF state.eps # <<>>
    THEN State(state.emit, ShiftIndices(state.eps, shift_by), <<>>)
    ELSE State(state.emit, <<>>, ShiftEdges(state.edges, shift_by))

RECURSIVE _shift_table(_, _)
_shift_table(table, shift_by) ==
    IF table = <<>> THEN <<>>
    ELSE <<ShiftState(table[1], shift_by)>> \o _shift_table(Tail(table), shift_by)

\* NFA.match_on
match_on(value) == <<State(<<>>, <<>>, <<Edge(value, 1)>>), EmptyState>>

\* star that adds no new accepting state
star_NoNewEnd(table) ==
    LET shifted0 == _shift_table(table, 1)
        shifted == AddEpsilonLast(AddEpsilonLast(shifted0, 0), Len(shifted0) + 1)
        new_start == State(<<>>, <<1, Len(shifted) + 1>>, <<>>)
    IN <<new_start>> \o shifted

\* star whose new start cannot bypass the inner fragment
star_NoSkip(table) ==
    LET shifted0 == _shift_table(table, 1)
        shifted == AddEpsilonLast(AddEpsilonLast(shifted0, 0), Len(shifted0) + 1)
        new_start == State(<<>>, <<1>>, <<>>)
    IN <<new_start>> \o shifted \o <<EmptyState>>

\* NFA.star
star(table) ==
    LET shifted0 == _shift_table(table, 1)
        shifted == AddEpsilonLast(AddEpsilonLast(shifted0, 0), Len(shifted0) + 1)
        new_start == State(<<>>, <<1, Len(shifted) + 1>>, <<>>)
    IN <<new_start>> \o shifted \o <<EmptyState>>

\* plus without the epsilon back to the start
plus_NoLoop(table) ==
    Append(AddEpsilonLast(table, Len(table)), EmptyState)

\* NFA.plus
plus(table) ==
    Append(AddEpsilonLast(AddEpsilonLast(table, 0), Len(table)), EmptyState)

\* NFA.optional
optional(table) ==
    LET shifted0 == _shift_table(table, 1)
        shifted == AddEpsilonLast(shifted0, Len(shifted0) + 1)
        new_start == State(<<>>, <<1, Len(shifted) + 1>>, <<>>)
    IN <<new_start>> \o shifted \o <<EmptyState>>

\* NFA.concat
RECURSIVE ConcatFrom(_, _, _)
ConcatFrom(table, nfas, k) ==
    IF k > Len(nfas) THEN table
    ELSE ConcatFrom(AddEpsilonLast(table, Len(table)) \o _shift_table(nfas[k], Len(table)),
                    nfas, k + 1)

concat(nfas) ==
    IF nfas = <<>> THEN <<EmptyState>> ELSE ConcatFrom(nfas[1], nfas, 2)

\* NFA.union: the epsilons from the old ends to the new end, from state i on
RECURSIVE EndsTo(_, _, _, _)
EndsTo(table, old_ends, new_end, i) ==
    IF i > Len(table) THEN <<>>
    ELSE <<IF \E e \in 1..Len(old_ends) : old_ends[e] = i - 1
           THEN _add_epsilon(table[i], new_end)
           ELSE table[i]>> \o EndsTo(table, old_ends, new_end, i + 1)

\* NFA.union: the loop over nfas
RECURSIVE UnionFrom(_, _, _, _)
UnionFrom(table, old_ends, nfas, k) ==
    IF k > Len(nfas)
    THEN EndsTo(table, old_ends, Len(table), 1) \o <<EmptyState>>
    ELSE LET start == State(<<>>, Append(table[1].eps, Len(table)), <<>>)
             extended == <<start>> \o Tail(table) \o _shift_table(nfas[k], Len(table))
         IN UnionFrom(extended, Append(old_ends, Len(extended) - 1), nfas, k + 1)

union(nfas) ==
    IF nfas = <<>> THEN <<EmptyState>>
    ELSE IF Len(nfas) = 1 THEN nfas[1]
    ELSE UnionFrom(<<EmptyState>>, <<>>, nfas, 1)

\* emitter whose new last state carries no Token.EMIT
emitter_NoEmit(table, rule) ==
    Append(AddEpsilonLast(table, Len(table)), EmptyState)

\* NFA.emitter
emitter(table, rule) ==
    Append(AddEpsilonLast(table, Len(table)), State(<<rule>>, <<>>, <<>>))

\* Grammar.to_nfa of Keyword, Variable, Star, Plus, Optional and Group
RECURSIVE to_nfa(_), MapToNfa(_), MapAlts(_)
\* map(lambda e: e.to_nfa(), exprs)
MapToNfa(exprs) ==
    IF exprs = <<>> THEN <<>> ELSE <<to_nfa(exprs[1])>> \o MapToNfa(Tail(exprs))

\* map(lambda alt: NFA.concat(...), self.alts)
MapAlts(alts) ==
    IF alts = <<>> THEN <<>> ELSE <<concat(MapToNfa(alts[1]))>> \o MapAlts(Tail(alts))

\* to_nfa in which a Variable matches zero or more words
to_nfa_VariableStar(node) ==
    IF node.type = "Keyword" THEN emitter(match_on(node.inner), node)
    ELSE IF node.type = "Variable" THEN emitter(star(match_on(ANY)), node)
    ELSE IF node.type = "Star" THEN star(to_nfa(node.inner))
    ELSE IF node.type = "Plus" THEN plus(to_nfa(node.inner))
    ELSE IF node.type = "Optional" THEN optional(to_nfa(node.inner))
    ELSE IF node.args # <<>>
    THEN concat(MapToNfa(node.args))
    ELSE union(MapAlts(node.alts))

\* to_nfa in which a Star wraps its table in an emitter as the leaves do
to_nfa_StarEmits(node) ==
    IF node.type = "Keyword" THEN emitter(match_on(node.inner), node)
    ELSE IF node.type = "Variable" THEN emitter(plus(match_on(ANY)), node)
    ELSE IF node.type = "Star" THEN emitter(star(to_nfa(node.inner)), node)
    ELSE IF node.type = "Plus" THEN plus(to_nfa(node.inner))
    ELSE IF node.type = "Optional" THEN optional(to_nfa(node.inner))
    ELSE IF node.args # <<>>
    THEN concat(MapToNfa(node.args))
    ELSE union(MapAlts(node.alts))

to_nfa(node) ==
    IF node.type = "Keyword" THEN emitter(match_on(node.inner), node)
    ELSE IF node.type = "Variable" THEN emitter(plus(match_on(ANY)), node)
    ELSE IF node.type = "Star" THEN star(to_nfa(node.inner))
    ELSE IF node.type = "Plus" THEN plus(to_nfa(node.inner))
    ELSE IF node.type = "Optional" THEN optional(to_nfa(node.inner))
    ELSE IF node.args # <<>>
    THEN concat(MapToNfa(node.args))
    ELSE union(MapAlts(node.alts))

\* an nfa property that wraps the kept table again on every later access
NfaProperty_Rewrapped(cached, grammar) ==
    IF cached = <<>> THEN to_nfa(grammar) ELSE optional(cached)

\* an nfa property that runs to_nfa on every access
Builds_EveryAccess(cached) == 1

\* Grammar.nfa: the executions of to_nfa in one access to the property
Builds(cached) == IF cached = <<>> THEN 1 ELSE 0

\* Grammar.nfa: the table is built on the first access and kept
NfaProperty(cached, grammar) == IF cached = <<>> THEN to_nfa(grammar) ELSE cached

\* ------------------------------------------------------------- executors
\* The generators recurse through epsilon successors.  A state met again on
\* the current chain of calls would be entered forever: Python ends the call
\* with RecursionError, which is the result Diverged stands for.
Diverged == -1

RECURSIVE Flatten(_)
Flatten(seqs) == IF seqs = <<>> THEN <<>> ELSE seqs[1] \o Flatten(Tail(seqs))

\* transition without the `if token is Token.END` test on the last state
RECURSIVE transition_AcceptsEarly(_, _, _, _)
transition_AcceptsEarly(table, state_index, token, chain) ==
    LET state == table[state_index + 1]
    IN IF state_index \in chain THEN <<Diverged>>
       ELSE IF state.eps # <<>>
       THEN Flatten([k \in 1..Len(state.eps) |->
                       transition_AcceptsEarly(table, state.eps[k], token, chain \cup {state_index})])
       ELSE IF state_index = Len(table) - 1 THEN <<state_index>>
       ELSE IF HasKey(state, ANY) /\ token # END THEN <<Get(state, ANY)>>
       ELSE IF HasKey(state, token) THEN <<Get(state, token)>>
       ELSE <<>>

\* NFA.transition: the states yielded, in order
RECURSIVE transition(_, _, _, _)
transition(table, state_index, token, chain) ==
    LET state == table[state_index + 1]
    IN IF state_index \in chain THEN <<Diverged>>
       ELSE IF state.eps # <<>>
       THEN Flatten([k \in 1..Len(state.eps) |->
                       transition(table, state.eps[k], token, chain \cup {state_index})])
       ELSE IF state_index = Len(table) - 1
       THEN IF token = END THEN <<state_index>> ELSE <<>>
       ELSE IF HasKey(state, ANY) /\ token # END THEN <<Get(state, ANY)>>
       ELSE IF HasKey(state, token) THEN <<Get(state, token)>>
       ELSE <<>>

\* NFA.trans_emit: the (emits, state) pairs yielded, in order
RECURSIVE trans_emit(_, _, _, _, _)
trans_emit(table, state_index, token, emits, chain) ==
    LET state == table[state_index + 1]
        emits2 == emits \o state.emit
    IN IF state_index \in chain THEN <<[emits |-> <<>>, to |-> Diverged]>>
       ELSE IF state.eps # <<>>
       THEN Flatten([k \in 1..Len(state.eps) |->
                       trans_emit(table, state.eps[k], token, emits2, chain \cup {state_index})])
       ELSE IF state_index = Len(table) - 1
       THEN IF token = END THEN <<[emits |-> emits2, to |-> state_index]>> ELSE <<>>
       ELSE IF HasKey(state, ANY) /\ token # END THEN <<[emits |-> emits2, to |-> Get(state, ANY)]>>
       ELSE IF HasKey(state, token) THEN <<[emits |-> emits2, to |-> Get(state, token)]>>
       ELSE <<>>

\* tuple(state) of a state without epsilon: its keys
Keys(state) ==
    (IF state.emit # <<>> THEN <<EMIT>> ELSE <<>>)
        \o [k \in 1..Len(state.edges) |-> state.edges[k].tok]

\* trans_expected that reports only when the input has ended
RECURSIVE trans_expected_EndOnly(_, _, _, _)
trans_expected_EndOnly(table, state_index, token, chain) ==
    LET state == table[state_index + 1]
    IN IF state_index \in chain THEN <<"RecursionError">>
       ELSE IF state.eps # <<>>
       THEN Flatten([k \in 1..Len(state.eps) |->
                       trans_expected_EndOnly(table, state.eps[k], token, chain \cup {state_index})])
       ELSE IF state_index = Len(table) - 1
       THEN IF token # END THEN <<NOTHING>> ELSE <<>>
       ELSE IF token = END THEN Keys(state)
       ELSE <<>>

\* NFA.trans_expected: the token categories yielded, in order
RECURSIVE trans_expected(_, _, _, _)
trans_expected(table, state_index, token, chain) ==
    LET state == table[state_index + 1]
    IN IF state_index \in chain THEN <<"RecursionError">>
       ELSE IF state.eps # <<>>
       THEN Flatten([k \in 1..Len(state.eps) |->
                       trans_expected(table, state.eps[k], token, chain \cup {state_index})])
       ELSE IF state_index = Len(table) - 1
       THEN IF token # END THEN <<NOTHING>> ELSE <<>>
       ELSE IF token = END THEN Keys(state)
       ELSE IF ~(HasKey(state, token) \/ HasKey(state, ANY)) THEN Keys(state)
       ELSE <<>>

Range(s) == {s[k] : k \in 1..Len(s)}

\* NFA.matches: the loop over tokens + [Token.END] from position k on
RECURSIVE MatchesLoop(_, _, _, _)
MatchesLoop(table, toks, k, states) ==
    IF k > Len(toks)
    THEN IF (Len(table) - 1) \in states THEN "True" ELSE "False"
    ELSE LET next_states == UNION {Range(transition(table, st, toks[k], {})) : st \in states}
         IN IF Diverged \in next_states THEN "RecursionError"
            ELSE MatchesLoop(table, toks, k + 1, next_states)

matches(table, toks) == MatchesLoop(table, Append(toks, END), 1, {0})

\* entries of a parse stack: a str token, a Parsed namedtuple, or a Token
\* member pushed as the current token
StrEntry(token) ==
    [kind |-> IF token \in Markers THEN "Token" ELSE "str", rule |-> NoRule, tokens |-> <<token>>]
Parsed(rule, toks) == [kind |-> "Parsed", rule |-> rule, tokens |-> toks]
Fail(expected, received) == [expected |-> expected, received |-> received]

\* the while loop popping str entries: how many trailing entries are str
RECURSIVE TrailingStr(_)
TrailingStr(stk) ==
    IF stk # <<>> /\ Last(stk).kind = "str" THEN 1 + TrailingStr(Front(stk)) ELSE 0

\* a reduction that keeps the claimed tokens in the order they were popped
Reduce_Unreversed(stk, rule, token) ==
    LET n == TrailingStr(stk)
        claimed == [k \in 1..n |-> stk[Len(stk) + 1 - k].tokens[1]]
    IN SubSeq(stk, 1, Len(stk) - n) \o <<Parsed(rule, claimed), StrEntry(token)>>

\* the body of `if emits:` in NFA.annotate
Reduce(stk, rule, token) ==
    LET n == TrailingStr(stk)
        claimed == [k \in 1..n |-> stk[Len(stk) - n + k].tokens[1]]
    IN SubSeq(stk, 1, Len(stk) - n) \o <<Parsed(rule, claimed), StrEntry(token)>>

\* the successors of one (state, stack) pair on token, in order
Advance(table, path, token) ==
    LET out == trans_emit(table, path.state, token, <<>>, {})
    IN [k \in 1..Len(out) |->
          [state |-> out[k].to,
           unpack |-> Len(out[k].emits) <= 1,
           stack |-> IF out[k].emits # <<>>
                     THEN Reduce(path.stack, out[k].emits[1], token)
                     ELSE Append(path.stack, StrEntry(token))]]

\* the `if not next_states:` block of NFA.annotate with ParseError.__init__
Failures(table, paths, token) ==
    {Fail(Range(trans_expected(table, paths[k].state, token, {})), token) : k \in 1..Len(paths)}

\* NFA.annotate: the loop over tokens + [Token.END] from position k on
RECURSIVE AnnotateLoop(_, _, _, _)
AnnotateLoop(table, toks, k, paths) ==
    IF k > Len(toks)
    THEN [kind |-> "list", stacks |-> [p \in 1..Len(paths) |-> paths[p].stack], fails |-> {}]
    ELSE LET next == Flatten([p \in 1..Len(paths) |-> Advance(table, paths[p], toks[k])])
         IN IF \E n \in 1..Len(next) : next[n].state = Diverged
            THEN [kind |-> "RecursionError", stacks |-> <<>>, fails |-> {}]
            ELSE IF \E n \in 1..Len(next) : ~next[n].unpack
            THEN [kind |-> "ValueError", stacks |-> <<>>, fails |-> {}]
            ELSE IF next = <<>>
            THEN [kind |-> "ParseError", stacks |-> <<>>, fails |-> Failures(table, paths, toks[k])]
            ELSE AnnotateLoop(table, toks, k + 1, next)

annotate(table, toks) ==
    AnnotateLoop(table, Append(toks, END), 1, <<[state |-> 0, unpack |-> TRUE, stack |-> <<>>]>>)

\* the command lines tried
RECURSIVE SeqsUpTo(_, _)
SeqsUpTo(S, n) ==
    IF n = 0 THEN {<<>>}
    ELSE LET shorter == SeqsUpTo(S, n - 1)
         IN shorter \cup {Append(t, w) : t \in shorter, w \in S}

Inputs == SeqsUpTo(InputWords, MaxTLen)

\* the code after the loop returning the innermost open group, whatever the
\* depth of the stack
Finish_ReturnsTop(stk, toks) ==
    LET c == cleanup(Last(stk))
    IN IF c.msg # ""
       THEN [err |-> Raise(c.msg, -1, -1), ast |-> NoRule]
       ELSE [err |-> NoErr, ast |-> c.group]

\* the code after the loop counting the root group among the unclosed ones
Finish_CountsRoot(stk, toks) ==
    LET c == cleanup(stk[1])
    IN IF Len(stk) > 1
       THEN [err |-> Raise("Expected count ')', but input ended", _string_index(0, toks),
                           Len(stk)),
             ast |-> NoRule]
       ELSE IF c.msg # ""
       THEN [err |-> Raise(c.msg, -1, -1), ast |-> NoRule]
       ELSE [err |-> NoErr, ast |-> c.group]

\* the code of _parse_grammar after the loop: the error raised, or the root
\* group returned
Finish(stk, toks) ==
    LET c == cleanup(stk[1])
    IN IF Len(stk) > 1
       THEN [err |-> Raise("Expected count ')', but input ended", _string_index(0, toks),
                           Len(stk) - 1),
             ast |-> NoRule]
       ELSE IF c.msg # ""
       THEN [err |-> Raise(c.msg, -1, -1), ast |-> NoRule]
       ELSE [err |-> NoErr, ast |-> c.group]

\* _parse_grammar on the whole list re.split returns: the loop from entry k
\* on, then the code after the loop
RECURSIVE ParseFrom(_, _, _)
ParseFrom(stk, toks, k) ==
    IF k > Len(toks) THEN Finish(stk, toks)
    ELSE IF toks[k] \in {"", NoneTok} THEN ParseFrom(stk, toks, k + 1)
    ELSE LET r == Dispatch(stk, toks[k], k - 1, toks)
         IN IF r.err.msg # "" THEN [err |-> r.err, ast |-> NoRule]
            ELSE ParseFrom(r.stack, toks, k + 1)

_parse_grammar(toks) == ParseFrom(<<Group(<<>>, <<>>)>>, toks, 1)

NoResult == [kind |-> "none", stacks |-> <<>>, fails |-> {}]

\* callers of the nfa property: where each one is in the getter, the table
\* object its to_nfa call made and the table object the getter returned to it
Threads == {1, 2}
Idle == [pc |-> "idle", made |-> 0, table |-> <<>>, holds |-> 0]

\* -------------------------------------------------------------- split_args
\* in_quote = False
NotQuoted == "<False>"

\* tokens[-1].append(char)
AppendLast(toks, char) == Append(Front(toks), Append(Last(toks), char))

\* a loop body that drops whitespace inside a quoted token as well
split_step_SkipsInnerSpace(quote, token, toks, char) ==
    IF char \in Whitespace
    THEN [in_quote |-> quote, in_token |-> FALSE, tokens |-> toks]
    ELSE IF quote # NotQuoted
    THEN IF char = quote
         THEN [in_quote |-> NotQuoted, in_token |-> token, tokens |-> toks]
         ELSE [in_quote |-> quote, in_token |-> token, tokens |-> AppendLast(toks, char)]
    ELSE IF char \in Quotes
    THEN IF token
         THEN [in_quote |-> quote, in_token |-> token, tokens |-> AppendLast(toks, char)]
         ELSE [in_quote |-> char, in_token |-> token, tokens |-> Append(toks, <<>>)]
    ELSE IF token
    THEN [in_quote |-> quote, in_token |-> token, tokens |-> AppendLast(toks, char)]
    ELSE [in_quote |-> quote, in_token |-> TRUE, tokens |-> Append(toks, <<char>>)]

\* a loop body in which a quote met outside a quoted token always opens one
split_step_QuoteOpens(quote, token, toks, char) ==
    IF quote # NotQuoted
    THEN IF char = quote
         THEN [in_quote |-> NotQuoted, in_token |-> token, tokens |-> toks]
         ELSE [in_quote |-> quote, in_token |-> token, tokens |-> AppendLast(toks, char)]
    ELSE IF char \in Quotes
    THEN [in_quote |-> char, in_token |-> FALSE, tokens |-> Append(toks, <<>>)]
    ELSE IF char \in Whitespace
    THEN [in_quote |-> quote, in_token |-> FALSE, tokens |-> toks]
    ELSE IF token
    THEN [in_quote |-> quote, in_token |-> token, tokens |-> AppendLast(toks, char)]
    ELSE [in_quote |-> quote, in_token |-> TRUE, tokens |-> Append(toks, <<char>>)]

\* a loop body that keeps the closing quote in the token it closes
split_step_KeepsClosingQuote(quote, token, toks, char) ==
    IF quote # NotQuoted
    THEN IF char = quote
         THEN [in_quote |-> NotQuoted, in_token |-> token, tokens |-> AppendLast(toks, char)]
         ELSE [in_quote |-> quote, in_token |-> token, tokens |-> AppendLast(toks, char)]
    ELSE IF char \in Quotes
    THEN IF token
         THEN [in_quote |-> quote, in_token |-> token, tokens |-> AppendLast(toks, char)]
         ELSE [in_quote |-> char, in_token |-> token, tokens |-> Append(toks, <<>>)]
    ELSE IF char \in Whitespace
    THEN [in_quote |-> quote, in_token |-> FALSE, tokens |-> toks]
    ELSE IF token
    THEN [in_quote |-> quote, in_token |-> token, tokens |-> AppendLast(toks, char)]
    ELSE [in_quote |-> quote, in_token |-> TRUE, tokens |-> Append(toks, <<char>>)]

\* the body of the for loop of split_args: the locals after the character
split_step(quote, token, toks, char) ==
    IF quote # NotQuoted
    THEN IF char = quote
         THEN [in_quote |-> NotQuoted, in_token |-> token, tokens |-> toks]
         ELSE [in_quote |-> quote, in_token |-> token, tokens |-> AppendLast(toks, char)]
    ELSE IF char \in Quotes
    THEN IF token
         THEN [in_quote |-> quote, in_token |-> token, tokens |-> AppendLast(toks, char)]
         ELSE [in_quote |-> char, in_token |-> token, tokens |-> Append(toks, <<>>)]
    ELSE IF char \in Whitespace
    THEN [in_quote |-> quote, in_token |-> FALSE, tokens |-> toks]
    ELSE IF token
    THEN [in_quote |-> quote, in_token |-> token, tokens |-> AppendLast(toks, char)]
    ELSE [in_quote |-> quote, in_token |-> TRUE, tokens |-> Append(toks, <<char>>)]

\* "".join(token): the characters of the list, in order, as one str
RECURSIVE join(_)
join(token) == IF token = <<>> THEN <<>> ELSE <<token[1]>> \o join(Tail(token))

\* a return statement that strips the whitespace at the end of each token
RECURSIVE split_return_Stripped(_)
split_return_Stripped(toks) ==
    LET RECURSIVE rstrip(_)
        rstrip(t) == IF t # <<>> /\ Last(t) \in Whitespace THEN rstrip(Front(t)) ELSE t
    IN IF toks = <<>> THEN <<>>
       ELSE <<rstrip(join(toks[1]))>> \o split_return_Stripped(Tail(toks))

\* the return statement of split_args
RECURSIVE split_return(_)
split_return(toks) ==
    IF toks = <<>> THEN <<>> ELSE <<join(toks[1])>> \o split_return(Tail(toks))

Init ==
    /\ pc = "parse"
    /\ tokens = <<>>
    /\ stack = <<Group(<<>>, <<>>)>>
    /\ err = NoErr
    /\ ast = NoRule
    /\ nfa = <<>>
    /\ input = <<>>
    /\ mres = "none"
    /\ ares = NoResult
    /\ string = <<>>
    /\ in_quote = NotQuoted
    /\ in_token = FALSE
    /\ split_tokens = <<>>
    /\ split_ret = <<>>
    /\ builds = 0
    /\ nfa_id = 0
    /\ caller = [t \in Threads |-> Idle]
    /\ heap = <<>>
    /\ built = <<>>
    /\ failed = FALSE

\* _parse_grammar: the loop reaches the next lexeme of the grammar string
\* (empty and None entries before it are skipped by `continue`)
ParseToken(lex) ==
    /\ pc = "parse"
    /\ NumLexemes(tokens) < MaxGLen
    /\ ~(lex \in Words /\ LastIn(tokens, Words))
    /\ LET toks == tokens \o Filler(tokens, lex) \o <<lex>>
           r == IF lex = NoneTok
                THEN [stack |-> stack, err |-> NoErr]
                ELSE Dispatch(stack, lex, Len(toks) - 1, toks)
       IN /\ tokens' = toks
          /\ stack' = r.stack
          /\ err' = r.err
          /\ pc' = IF r.err.msg = "" THEN "parse" ELSE "error"
    /\ UNCHANGED <<ast, nfa, input, mres, ares>>
    /\ UNCHANGED splitVars
    /\ UNCHANGED heapVars
    /\ UNCHANGED cacheVars

\* _parse_grammar: the string ends; the code after the loop
ParseEnd ==
    /\ pc = "parse"
    /\ LET toks == tokens \o (IF LastIn(tokens, Words) THEN <<>> ELSE <<"">>)
           r == Finish(stack, toks)
       IN IF r.err.msg # ""
          THEN /\ err' = r.err
               /\ pc' = "error"
               /\ tokens' = toks
               /\ UNCHANGED <<stack, ast>>
          ELSE /\ ast' = r.ast
               /\ pc' = "ready"
               /\ tokens' = <<>>
               /\ stack' = <<>>
               /\ UNCHANGED err
    /\ UNCHANGED <<nfa, input, mres, ares>>
    /\ UNCHANGED splitVars
    /\ UNCHANGED heapVars
    /\ UNCHANGED cacheVars

\* Grammar.matches through the nfa property: a new command line, or the line
\* annotate was called with
Matches(toks) ==
    /\ \/ pc = "ready"
       \/ pc = "called" /\ mres = "none" /\ toks = input
    /\ LET table == NfaProperty(nfa, ast)
       IN /\ nfa' = table
          /\ mres' = matches(table, toks)
    /\ input' = toks
    /\ pc' = "called"
    /\ builds' = builds + Builds(nfa)
    /\ nfa_id' = IF Builds(nfa) > 0 THEN builds' ELSE nfa_id
    /\ UNCHANGED <<tokens, stack, err, ast, ares>>
    /\ UNCHANGED splitVars
    /\ UNCHANGED heapVars
    /\ UNCHANGED caller

\* Grammar.annotate through the nfa property
Annotate(toks) ==
    /\ \/ pc = "ready"
       \/ pc = "called" /\ ares.kind = "none" /\ toks = input
    /\ LET table == NfaProperty(nfa, ast)
       IN /\ nfa' = table
          /\ ares' = annotate(table, toks)
    /\ input' = toks
    /\ pc' = "called"
    /\ builds' = builds + Builds(nfa)
    /\ nfa_id' = IF Builds(nfa) > 0 THEN builds' ELSE nfa_id
    /\ UNCHANGED <<tokens, stack, err, ast, mres>>
    /\ UNCHANGED splitVars
    /\ UNCHANGED heapVars
    /\ UNCHANGED caller

\* the caller drops the results and turns to the next command line
NextLine ==
    /\ pc = "called"
    /\ mres # "none"
    /\ ares.kind # "none"
    /\ pc' = "ready"
    /\ input' = <<>>
    /\ mres' = "none"
    /\ ares' = NoResult
    /\ UNCHANGED <<tokens, stack, err, ast, nfa>>
    /\ UNCHANGED splitVars
    /\ UNCHANGED heapVars
    /\ UNCHANGED cacheVars

Next ==
    \/ \E lex \in Words \cup Delims : ParseToken(lex)
    \/ ParseEnd
    \/ \E toks \in Inputs : Matches(toks)
    \/ \E toks \in Inputs : Annotate(toks)
    \/ NextLine

Spec == Init /\ [][Next]_vars

\* Grammar.nfa read by two callers at once.  The getter is not atomic: the
\* hasattr test, the call of to_nfa, the assignment to _nfa and the read of
\* _nfa for the return are separate steps of a thread.
\* `if not hasattr(self, "_nfa")`
ConcCheck(t) ==
    /\ pc = "ready"
    /\ caller[t].pc = "idle"
    /\ caller' = [caller EXCEPT ![t].pc = IF nfa = <<>> THEN "missing" ELSE "present"]
    /\ UNCHANGED <<pc, builds, nfa_id>>
    /\ UNCHANGED grammarVars
    /\ UNCHANGED splitVars
    /\ UNCHANGED heapVars

\* `self.to_nfa()`: a new table object
ConcBuild(t) ==
    /\ caller[t].pc = "missing"
    /\ builds' = builds + 1
    /\ caller' = [caller EXCEPT ![t] = [pc |-> "built", made |-> builds + 1,
                                         table |-> to_nfa(ast), holds |-> 0]]
    /\ UNCHANGED <<pc, nfa_id>>
    /\ UNCHANGED grammarVars
    /\ UNCHANGED splitVars
    /\ UNCHANGED heapVars

\* `self._nfa = ...`
ConcStore(t) ==
    /\ caller[t].pc = "built"
    /\ nfa' = caller[t].table
    /\ nfa_id' = caller[t].made
    /\ caller' = [caller EXCEPT ![t].pc = "present"]
    /\ UNCHANGED <<pc, builds, tokens, stack, err, ast, input, mres, ares>>
    /\ UNCHANGED splitVars
    /\ UNCHANGED heapVars

\* `return self._nfa`
ConcReturn(t) ==
    /\ caller[t].pc = "present"
    /\ caller' = [caller EXCEPT ![t] = [pc |-> "returned", made |-> caller[t].made,
                                         table |-> <<>>, holds |-> nfa_id]]
    /\ UNCHANGED <<pc, builds, nfa_id>>
    /\ UNCHANGED grammarVars
    /\ UNCHANGED splitVars
    /\ UNCHANGED heapVars

ConcNext ==
    \/ \E lex \in Words \cup Delims : ParseToken(lex)
    \/ ParseEnd
    \/ \E t \in Threads : ConcCheck(t)
    \/ \E t \in Threads : ConcBuild(t)
    \/ \E t \in Threads : ConcStore(t)
    \/ \E t \in Threads : ConcReturn(t)

ConcSpec == Init /\ [][ConcNext]_vars

\* split_args is called: nothing of a grammar is involved
SplitInit ==
    /\ pc = "split"
    /\ tokens = <<>>
    /\ stack = <<>>
    /\ err = NoErr
    /\ ast = NoRule
    /\ nfa = <<>>
    /\ input = <<>>
    /\ mres = "none"
    /\ ares = NoResult
    /\ string = <<>>
    /\ in_quote = NotQuoted
    /\ in_token = FALSE
    /\ split_tokens = <<>>
    /\ split_ret = <<>>
    /\ builds = 0
    /\ nfa_id = 0
    /\ caller = [t \in Threads |-> Idle]
    /\ heap = <<>>
    /\ built = <<>>
    /\ failed = FALSE

\* split_args: one iteration of `for char in string`
SplitChar(char) ==
    /\ pc = "split"
    /\ Len(string) < MaxSLen
    /\ string' = Append(string, char)
    /\ LET r == split_step(in_quote, in_token, split_tokens, char)
       IN /\ in_quote' = r.in_quote
          /\ in_token' = r.in_token
          /\ split_tokens' = r.tokens
    /\ UNCHANGED <<pc, split_ret>>
    /\ UNCHANGED grammarVars
    /\ UNCHANGED cacheVars
    /\ UNCHANGED heapVars

\* split_args: the string is exhausted and the joined tokens are returned
SplitReturn ==
    /\ pc = "split"
    /\ pc' = "returned"
    /\ split_ret' = split_return(split_tokens)
    /\ UNCHANGED <<string, in_quote, in_token, split_tokens>>
    /\ UNCHANGED grammarVars
    /\ UNCHANGED cacheVars
    /\ UNCHANGED heapVars

SplitNext ==
    \/ \E char \in Chars : SplitChar(char)
    \/ SplitReturn

SplitSpec == SplitInit /\ [][SplitNext]_vars

\* ------------------------------------------------ the builders on objects
\* The builders of NFA work on Python lists and dicts.  An object is an entry
\* of heap and its identity is its position there.  A dict is a state: eps is
\* the list under Token.EPSILON (NoList when the key is missing), edges are
\* its other keys but Token.EMIT.  A list holds the successors of an epsilon
\* state or, for a table, the dicts of its states.  An NFA object is known by
\* its _table.
MaxBuilt == 3

NoList == 0
DictObj(emit, eps, edges) ==
    [kind |-> "dict", emit |-> emit, eps |-> eps, edges |-> edges, items |-> <<>>]
ListObj(items) ==
    [kind |-> "list", emit |-> <<>>, eps |-> NoList, edges |-> <<>>, items |-> items]
EmptyDict == DictObj(<<>>, NoList, <<>>)

\* the object id changed in place
Put(h, id, obj) == SubSeq(h, 1, id - 1) \o <<obj>> \o SubSeq(h, id + 1, Len(h))
\* list.append and list.extend
ListAppend(h, id, x) == Put(h, id, ListObj(Append(h[id].items, x)))
ListExtend(h, id, xs) == Put(h, id, ListObj(h[id].items \o xs))

\* a call returns object ret, or raises
Ret(h, id) == [heap |-> h, ret |-> id, raised |-> FALSE]
Raises(h) == [heap |-> h, ret |-> 0, raised |-> TRUE]

\* isinstance(rule, Grammar)
IsGrammar(rule) ==
    rule.type \in {"Keyword", "Variable", "Star", "Plus", "Optional", "Group"}
NotAGrammar == [type |-> "str", inner |-> "a"]
Rules == {Keyword("a"), Variable("X"), NotAGrammar}

\* _add_epsilon on the dict from_state
ObjAddEpsilon(h, from_state, to_index) ==
    IF h[from_state].edges # <<>> THEN Raises(h)
    ELSE LET h1 == IF h[from_state].eps = NoList
                   THEN Put(Append(h, ListObj(<<>>)), from_state,
                            DictObj(h[from_state].emit, Len(h) + 1, <<>>))
                   ELSE h
         IN Ret(ListAppend(h1, h1[from_state].eps, to_index), from_state)

\* NFA._shift_table: a new list of new dicts, with new successor lists
RECURSIVE ShiftLoop(_, _, _, _)
ShiftLoop(h, states, shift_by, new_table) ==
    IF states = <<>> THEN Ret(Append(h, ListObj(new_table)), Len(h) + 1)
    ELSE LET state == h[states[1]]
             h1 == IF state.eps # NoList
                   THEN Append(h, ListObj(ShiftIndices(h[state.eps].items, shift_by)))
                   ELSE h
             new_state == IF state.eps # NoList
                          THEN DictObj(state.emit, Len(h1), <<>>)
                          ELSE DictObj(state.emit, NoList, ShiftEdges(state.edges, shift_by))
         IN ShiftLoop(Append(h1, new_state), Tail(states), shift_by,
                      Append(new_table, Len(h1) + 1))

ObjShiftTable(h, table, shift_by) == ShiftLoop(h, h[table].items, shift_by, <<>>)

\* deepcopy(self._table)
RECURSIVE CopyLoop(_, _, _)
CopyLoop(h, states, new_table) ==
    IF states = <<>> THEN Ret(Append(h, ListObj(new_table)), Len(h) + 1)
    ELSE LET state == h[states[1]]
             h1 == IF state.eps # NoList
                   THEN Append(h, ListObj(h[state.eps].items))
                   ELSE h
             new_state == DictObj(state.emit,
                                  IF state.eps # NoList THEN Len(h1) ELSE NoList,
                                  state.edges)
         IN CopyLoop(Append(h1, new_state), Tail(states), Append(new_table, Len(h1) + 1))

\* a copy that hands back the table it was given
ObjDeepCopy_Same(h, table) == Ret(h, table)

\* NFA.copy()._table, deepcopy(nfas[0]._table)
ObjDeepCopy(h, table) == CopyLoop(h, h[table].items, <<>>)

\* NFA(): the table [{}]
ObjNFA(h) == Ret(h \o <<EmptyDict, ListObj(<<Len(h) + 1>>)>>, Len(h) + 2)

\* NFA.match_on
ObjMatchOn(h, value) ==
    Ret(h \o <<DictObj(<<>>, NoList, <<Edge(value, 1)>>), EmptyDict,
               ListObj(<<Len(h) + 1, Len(h) + 2>>)>>, Len(h) + 3)

\* NFA.star
ObjStar(h, nfa_table) ==
    LET s == ObjShiftTable(h, nfa_table, 1)
        shifted == s.heap[s.ret].items
        a1 == ObjAddEpsilon(s.heap, Last(shifted), 0)
        a2 == ObjAddEpsilon(a1.heap, Last(shifted), Len(shifted) + 1)
    IN IF a1.raised THEN Raises(a1.heap)
       ELSE IF a2.raised THEN Raises(a2.heap)
       ELSE LET n == Len(a2.heap)
                h3 == a2.heap \o <<ListObj(<<1, Len(shifted) + 1>>),
                                   DictObj(<<>>, n + 1, <<>>),
                                   EmptyDict,
                                   ListObj(<<n + 2>> \o shifted)>>
            IN Ret(ListAppend(h3, n + 4, n + 3), n + 4)

\* NFA.plus
ObjPlus(h, nfa_table) ==
    LET c == ObjDeepCopy(h, nfa_table)
        table == c.heap[c.ret].items
        a1 == ObjAddEpsilon(c.heap, Last(table), 0)
        a2 == ObjAddEpsilon(a1.heap, Last(table), Len(table))
    IN IF a1.raised THEN Raises(a1.heap)
       ELSE IF a2.raised THEN Raises(a2.heap)
       ELSE Ret(ListAppend(Append(a2.heap, EmptyDict), c.ret, Len(a2.heap) + 1), c.ret)

\* NFA.optional
ObjOptional(h, nfa_table) ==
    LET s == ObjShiftTable(h, nfa_table, 1)
        shifted == s.heap[s.ret].items
        a == ObjAddEpsilon(s.heap, Last(shifted), Len(shifted) + 1)
    IN IF a.raised THEN Raises(a.heap)
       ELSE LET n == Len(a.heap)
                h3 == a.heap \o <<ListObj(<<1, Len(shifted) + 1>>),
                                  DictObj(<<>>, n + 1, <<>>),
                                  EmptyDict,
                                  ListObj(<<n + 2>> \o shifted)>>
            IN Ret(ListAppend(h3, n + 4, n + 3), n + 4)

\* NFA.union: the epsilons from the old ends to the new end
RECURSIVE UnionEnds(_, _, _, _, _)
UnionEnds(h, table, old_ends, new_end, e) ==
    IF e > Len(old_ends) THEN Ret(h, table)
    ELSE LET a == ObjAddEpsilon(h, h[table].items[old_ends[e] + 1], new_end)
         IN IF a.raised THEN Raises(a.heap)
            ELSE UnionEnds(a.heap, table, old_ends, new_end, e + 1)

\* NFA.union: the loop over nfas
RECURSIVE UnionLoop(_, _, _, _, _, _)
UnionLoop(h, start_eps, table, old_ends, args, k) ==
    IF k > Len(args)
    THEN UnionEnds(ListAppend(Append(h, EmptyDict), table, Len(h) + 1),
                   table, old_ends, Len(h[table].items), 1)
    ELSE LET h1 == ListAppend(h, start_eps, Len(h[table].items))
             s == ObjShiftTable(h1, args[k], Len(h1[table].items))
             h2 == ListExtend(s.heap, table, s.heap[s.ret].items)
         IN UnionLoop(h2, start_eps, table,
                      Append(old_ends, Len(h2[table].items) - 1), args, k + 1)

ObjUnion(h, args) ==
    IF args = <<>> THEN ObjNFA(h)
    ELSE IF Len(args) = 1 THEN ObjDeepCopy(h, args[1])
    ELSE LET n == Len(h)
             h1 == h \o <<ListObj(<<>>), DictObj(<<>>, n + 1, <<>>), ListObj(<<n + 2>>)>>
         IN UnionLoop(h1, n + 1, n + 3, <<>>, args, 1)

\* NFA.concat: the loop over nfas[1:]
RECURSIVE ConcatLoop(_, _, _, _)
ConcatLoop(h, table, args, k) ==
    IF k > Len(args) THEN Ret(h, table)
    ELSE LET s == ObjShiftTable(h, args[k], Len(h[table].items))
             a == ObjAddEpsilon(s.heap, Last(s.heap[table].items), Len(s.heap[table].items))
         IN IF a.raised THEN Raises(a.heap)
            ELSE ConcatLoop(ListExtend(a.heap, table, a.heap[s.ret].items),
                            table, args, k + 1)

ObjConcat(h, args) ==
    IF args = <<>> THEN ObjNFA(h)
    ELSE LET c == ObjDeepCopy(h, args[1])
         IN ConcatLoop(c.heap, c.ret, args, 2)

\* NFA.emitter
ObjEmitter(h, nfa_table, rule) ==
    IF ~IsGrammar(rule) THEN Raises(h)
    ELSE LET c == ObjDeepCopy(h, nfa_table)
             table == c.heap[c.ret].items
             a == ObjAddEpsilon(c.heap, Last(table), Len(table))
         IN IF a.raised THEN Raises(a.heap)
            ELSE Ret(ListAppend(Append(a.heap, DictObj(<<rule>>, NoList, <<>>)),
                                c.ret, Len(a.heap) + 1), c.ret)

\* the table object as a table of states
RECURSIVE DerefStates(_, _)
DerefStates(h, states) ==
    IF states = <<>> THEN <<>>
    ELSE <<State(h[states[1]].emit,
                 IF h[states[1]].eps = NoList THEN <<>> ELSE h[h[states[1]].eps].items,
                 h[states[1]].edges)>> \o DerefStates(h, Tail(states))

Deref(h, table) == DerefStates(h, h[table].items)

\* the argument lists of union and concat
Args == {<<>>} \cup {<<x>> : x \in 1..Len(built)}
               \cup {<<x, y>> : x, y \in 1..Len(built)}
ArgTables(args) == [k \in 1..Len(args) |-> built[args[k]]]

BuildInit ==
    /\ pc = "build"
    /\ tokens = <<>>
    /\ stack = <<>>
    /\ err = NoErr
    /\ ast = NoRule
    /\ nfa = <<>>
    /\ input = <<>>
    /\ mres = "none"
    /\ ares = NoResult
    /\ string = <<>>
    /\ in_quote = NotQuoted
    /\ in_token = FALSE
    /\ split_tokens = <<>>
    /\ split_ret = <<>>
    /\ builds = 0
    /\ nfa_id = 0
    /\ caller = [t \in Threads |-> Idle]
    /\ heap = <<>>
    /\ built = <<>>
    /\ failed = FALSE

\* a builder call and what it leaves behind
Build(r) ==
    /\ pc = "build"
    /\ Len(built) < MaxBuilt
    /\ heap' = r.heap
    /\ failed' = r.raised
    /\ built' = IF r.raised THEN built ELSE Append(built, r.ret)
    /\ UNCHANGED pc
    /\ UNCHANGED grammarVars
    /\ UNCHANGED splitVars
    /\ UNCHANGED cacheVars

BuildMatchOn(value) == Build(ObjMatchOn(heap, value))
BuildStar(x) == Build(ObjStar(heap, built[x]))
BuildPlus(x) == Build(ObjPlus(heap, built[x]))
BuildOptional(x) == Build(ObjOptional(heap, built[x]))
BuildUnion(args) == Build(ObjUnion(heap, ArgTables(args)))
BuildConcat(args) == Build(ObjConcat(heap, ArgTables(args)))
BuildEmitter(x, rule) == Build(ObjEmitter(heap, built[x], rule))

BuildNext ==
    \/ \E value \in LowerWords \cup {ANY} : BuildMatchOn(value)
    \/ \E x \in 1..Len(built) : BuildStar(x)
    \/ \E x \in 1..Len(built) : BuildPlus(x)
    \/ \E x \in 1..Len(built) : BuildOptional(x)
    \/ \E args \in Args : BuildUnion(args)
    \/ \E args \in Args : BuildConcat(args)
    \/ \E x \in 1..Len(built), rule \in Rules : BuildEmitter(x, rule)

BuildSpec == BuildInit /\ [][BuildNext]_vars

\* ================================================================= claims
\* both executors have answered for the same command line
Done == pc = "called" /\ mres # "none" /\ ares.kind # "none"

\* the grammar `k (X)`: a keyword followed by a group holding one variable
KeywordGroupVar(k) == Group(<<Keyword(k), Group(<<Variable("X")>>, <<>>)>>, <<>>)
\* the grammar `k X`: a keyword followed by one variable
KeywordVar(k) == Group(<<Keyword(k), Variable("X")>>, <<>>)

\* C1: matches returns True exactly when annotate returns a list with at
\* least one interpretation, and returns False exactly when annotate raises
\* ParseError.
C1_MatchesIffAnnotate ==
    Done => /\ (mres = "True") <=> (ares.kind = "list" /\ Len(ares.stacks) >= 1)
            /\ (mres = "False") <=> (ares.kind = "ParseError")

C1_Witness ==
    /\ Done
    /\ mres = "True"
    /\ ares.kind = "list"
    /\ Len(ares.stacks) >= 2
    /\ Len(input) >= 2

\* C2: for every grammar and token sequence annotate either raises
\* ParseError or returns a list that holds at least one interpretation, each
\* of which consumed the END marker.
C2_ParseErrorOrInterpretation ==
    ares.kind # "none" =>
        /\ ares.kind \in {"list", "ParseError"}
        /\ ares.kind = "list" =>
              /\ Len(ares.stacks) >= 1
              /\ \A i \in 1..Len(ares.stacks) :
                    ares.stacks[i] # <<>> /\ Last(ares.stacks[i]).tokens = <<END>>

\* annotate ended in RecursionError on a one-token command line
C2_Witness ==
    /\ Done
    /\ ares.kind = "RecursionError"
    /\ input = <<"a">>

\* C3: for the grammar `k (X)`, matches([k, t]) is True for any token t,
\* matches([k]) is False, and annotate([k, t]) returns exactly one
\* interpretation, whose Parsed records are the keyword claiming [k] and the
\* variable claiming exactly [t].
C3_KeywordThenVariable ==
    \A k \in LowerWords :
        (Done /\ ast = KeywordGroupVar(k)) =>
            /\ input = <<k>> => mres = "False"
            /\ (Len(input) = 2 /\ input[1] = k) =>
                  /\ mres = "True"
                  /\ ares.kind = "list"
                  /\ Len(ares.stacks) = 1
                  /\ SelectSeq(ares.stacks[1], LAMBDA e : e.kind = "Parsed")
                        = <<Parsed(Keyword(k), <<k>>), Parsed(Variable("X"), <<input[2]>>)>>

C3_Witness ==
    /\ Done
    /\ ast = KeywordGroupVar("a")
    /\ input = <<"a", "b">>
    /\ ares.kind = "list"

\* C6 as stated: the grammar `k X` accepts the keyword followed by exactly
\* one token and rejects the keyword followed by two or more tokens.
C6_VariableExactlyOne ==
    \A k \in LowerWords :
        (Done /\ ast = KeywordVar(k)) =>
            ((mres = "True") <=> (Len(input) = 2 /\ input[1] = k))

\* C6 amended: a Variable matches one or more tokens of any value: the
\* grammar `k X` accepts exactly the keyword followed by at least one token.
C6_VariableOneOrMore ==
    \A k \in LowerWords :
        (Done /\ ast = KeywordVar(k)) =>
            /\ (mres = "True") <=> (Len(input) >= 2 /\ input[1] = k)
            /\ mres = "True" =>
                  /\ ares.kind = "list"
                  /\ \A i \in 1..Len(ares.stacks) :
                        SelectSeq(ares.stacks[i], LAMBDA e : e.kind = "Parsed")
                           = <<Parsed(Keyword(k), <<k>>), Parsed(Variable("X"), Tail(input))>>

C6_Witness ==
    /\ Done
    /\ ast = KeywordVar("a")
    /\ Len(input) = 3
    /\ mres = "True"

\* C7: every entry of every interpretation returned by annotate is a bare str
\* token or a Parsed record; no Token member is an entry.
C7_NoMarkerInInterpretation ==
    ares.kind = "list" =>
        \A i \in 1..Len(ares.stacks) :
            \A j \in 1..Len(ares.stacks[i]) : ares.stacks[i][j].kind \in {"str", "Parsed"}

\* The readings of a token sequence under an AST node, defined on the AST
\* alone: the sequences of Parsed records, one per leaf use, whose claimed
\* spans are consecutive and cover the tokens.  A Keyword claims the one token
\* equal to it, a Variable a non-empty span.
RECURSIVE Reads(_, _), ReadsSeq(_, _), ReadsStar(_, _)
Splice(A, B) == {r1 \o r2 : r1 \in A, r2 \in B}
Prefix(toks, n) == SubSeq(toks, 1, n)
Suffix(toks, n) == SubSeq(toks, n + 1, Len(toks))

ReadsSeq(exprs, toks) ==
    IF exprs = <<>> THEN (IF toks = <<>> THEN {<<>>} ELSE {})
    ELSE UNION {Splice(Reads(exprs[1], Prefix(toks, n)), ReadsSeq(Tail(exprs), Suffix(toks, n)))
                  : n \in 0..Len(toks)}

ReadsStar(e, toks) ==
    IF toks = <<>> THEN {<<>>}
    ELSE UNION {Splice(Reads(e, Prefix(toks, n)), ReadsStar(e, Suffix(toks, n)))
                  : n \in 1..Len(toks)}

Reads(node, toks) ==
    IF node.type = "Keyword"
    THEN (IF toks = <<node.inner>> THEN {<<Parsed(node, toks)>>} ELSE {})
    ELSE IF node.type = "Variable"
    THEN (IF toks # <<>> THEN {<<Parsed(node, toks)>>} ELSE {})
    ELSE IF node.type = "Star" THEN ReadsStar(node.inner, toks)
    ELSE IF node.type = "Plus"
    THEN UNION {Splice(Reads(node.inner, Prefix(toks, n)), ReadsStar(node.inner, Suffix(toks, n)))
                  : n \in 0..Len(toks)}
    ELSE IF node.type = "Optional"
    THEN Reads(node.inner, toks) \cup (IF toks = <<>> THEN {<<>>} ELSE {})
    ELSE IF node.args # <<>> THEN ReadsSeq(node.args, toks)
    ELSE UNION {ReadsSeq(node.alts[a], toks) : a \in 1..Len(node.alts)}

\* the Parsed records of a returned interpretation, in order
ParsedOf(stk) == SelectSeq(stk, LAMBDA e : e.kind = "Parsed")
Returned == {ParsedOf(ares.stacks[i]) : i \in 1..Len(ares.stacks)}

\* C4: every admissible reading of the command line, for every grammar,
\* appears in the list annotate returns; none is dropped.
C4_EveryReadingReturned ==
    ares.kind # "none" =>
        \A r \in Reads(ast, input) : ares.kind = "list" /\ r \in Returned

\* a command line with an admissible reading on which annotate returned no list
C4_Witness ==
    /\ Done
    /\ ares.kind = "RecursionError"
    /\ Reads(ast, input) # {}
    /\ Len(input) = 2

\* a node that can match the empty sequence
RECURSIVE Nullable(_)
Nullable(node) ==
    IF node.type \in {"Keyword", "Variable"} THEN FALSE
    ELSE IF node.type \in {"Star", "Optional"} THEN TRUE
    ELSE IF node.type = "Plus" THEN Nullable(node.inner)
    ELSE IF node.args # <<>> THEN \A k \in 1..Len(node.args) : Nullable(node.args[k])
    ELSE \E a \in 1..Len(node.alts) : \A k \in 1..Len(node.alts[a]) : Nullable(node.alts[a][k])

\* a Star or Plus applied to a sub-expression that can match the empty sequence
RECURSIVE HasNullableLoop(_)
HasNullableLoop(node) ==
    IF node.type \in {"Keyword", "Variable"} THEN FALSE
    ELSE IF node.type \in {"Star", "Plus"}
    THEN Nullable(node.inner) \/ HasNullableLoop(node.inner)
    ELSE IF node.type = "Optional" THEN HasNullableLoop(node.inner)
    ELSE \/ \E k \in 1..Len(node.args) : HasNullableLoop(node.args[k])
         \/ \E a \in 1..Len(node.alts) : \E k \in 1..Len(node.alts[a]) : HasNullableLoop(node.alts[a][k])

\* membership in the language the AST defines structurally
InLanguage(node, toks) == Reads(node, toks) # {}

\* C5: for a grammar without a Star or Plus over a sub-expression that can
\* match the empty sequence, matches answers, and answers True exactly for
\* the token sequences of the language the AST defines.
C5_MatchesIsLanguage ==
    (Done /\ ~HasNullableLoop(ast)) =>
        /\ mres \in {"True", "False"}
        /\ (mres = "True") <=> InLanguage(ast, input)

C5_Witness ==
    /\ Done
    /\ ~HasNullableLoop(ast)
    /\ ast.alts # <<>>
    /\ \E k \in 1..Len(ast.alts[1]) : ast.alts[1][k].type = "Star"
    /\ mres = "True"
    /\ Len(input) >= 2

\* An independent simulation of the table on sets of states: the epsilon
\* closure as a least fixpoint, the states live after k tokens, and the edge
\* labels a live state could have taken.
RECURSIVE EpsClosure(_, _)
EpsClosure(table, S) ==
    LET more == S \cup UNION {Range(table[s + 1].eps) : s \in S}
    IN IF more = S THEN S ELSE EpsClosure(table, more)

Final(table) == Len(table) - 1
Consuming(table, S) == {s \in S : table[s + 1].eps = <<>> /\ s # Final(table)}

RECURSIVE LiveAfter(_, _, _)
LiveAfter(table, toks, k) ==
    IF k = 0 THEN {0}
    ELSE LET closure == EpsClosure(table, LiveAfter(table, toks, k - 1))
             t == toks[k]
         IN {ed.to : ed \in {x \in UNION {Range(table[c + 1].edges) : c \in Consuming(table, closure)} :
                               (x.tok = ANY /\ t # END) \/ x.tok = t}}
               \cup (IF t = END /\ Final(table) \in closure THEN {Final(table)} ELSE {})

ExpectedAt(table, s, t) ==
    LET closure == EpsClosure(table, {s})
    IN {ed.tok : ed \in UNION {Range(table[c + 1].edges) : c \in Consuming(table, closure)}}
          \cup (IF Final(table) \in closure /\ t # END THEN {NOTHING} ELSE {})

\* the position of the first token after which no state is live
FailPos(table, toks) ==
    CHOOSE k \in 1..Len(toks) :
        /\ LiveAfter(table, toks, k) = {}
        /\ \A j \in 1..(k - 1) : LiveAfter(table, toks, j) # {}

\* C8: when annotate fails on the received token t, the Fail records are, for
\* each state live before t, the record whose received is t and whose expected
\* set holds the labels of the consuming states epsilon-reachable from it (a
\* literal keyword or ANY), with NOTHING when the accepting state is reachable
\* and t is a real token; a grammar that starts with keyword k, given a first
\* token t other than k, fails with a record expecting k and receiving t.
C8_FailRecords ==
    (Done /\ ares.kind = "ParseError") =>
        LET toks == Append(input, END)
            f == FailPos(nfa, toks)
            t == toks[f]
        IN /\ ares.fails = {Fail(ExpectedAt(nfa, s, t), t) : s \in LiveAfter(nfa, toks, f - 1)}
           /\ \A fl \in ares.fails :
                 /\ fl.received = t
                 /\ fl.expected # {}
                 /\ fl.expected \subseteq (LowerWords \cup {ANY, NOTHING})
                 /\ NOTHING \in fl.expected => t # END

C8_KeywordMismatch ==
    (Done /\ input # <<>> /\ ast.args # <<>>) =>
        ((ast.args[1].type = "Keyword" /\ input[1] # ast.args[1].inner) =>
            /\ ares.kind = "ParseError"
            /\ \E fl \in ares.fails :
                  ast.args[1].inner \in fl.expected /\ fl.received = input[1])

C8_FailureReport == C8_FailRecords /\ C8_KeywordMismatch

C8_Witness ==
    /\ Done
    /\ ares.kind = "ParseError"
    /\ Len(input) >= 2
    /\ \E fl \in ares.fails :
          NOTHING \in fl.expected /\ fl.received # END /\ Cardinality(fl.expected) >= 2

\* --------------------------------------------------------- parser claims
Count(toks, x) == Cardinality({i \in 1..Len(toks) : toks[i] = x})
\* groups opened and not closed in the scanned part of the grammar string
OpenGroups(toks) == Count(toks, "(") - Count(toks, ")")
\* the scanned tokens without the empty and None entries
Significant(toks) == SelectSeq(toks, LAMBDA x : x \notin {"", NoneTok})
\* the step in which the scan meets the end of the grammar string
InputEnds ==
    /\ pc = "parse"
    /\ pc' # "parse"
    /\ (pc' = "ready" \/ tokens' = tokens \/ tokens' = Append(tokens, ""))
UnclosedMsg == "Expected count ')', but input ended"

\* C9: a grammar string that ends with n >= 1 groups still open is rejected
\* with the error that exactly n closing parentheses were expected, and no
\* AST is returned.
C9_UnclosedGroups ==
    [][(InputEnds /\ OpenGroups(tokens) >= 1) =>
          /\ pc' = "error"
          /\ err'.msg = UnclosedMsg
          /\ err'.count = OpenGroups(tokens)
          /\ ast' = NoRule]_vars

C9_Witness ==
    /\ pc = "error"
    /\ err.msg = UnclosedMsg
    /\ err.count = 2
    /\ OpenGroups(tokens) = 2

Rejected(msg) == pc = "error" /\ err.msg = msg /\ ast = NoRule

\* C10: `()` is rejected with the empty-group error, a '|' met while the
\* current sequence of the top group is empty is rejected, and a ')' or the
\* end of the root right after a '|' is rejected with the empty-alternate
\* error; an empty grammar is an empty root group.
C10_EmptyRejected ==
    LET sig == Significant(tokens)
        n == Len(sig)
        last == IF n >= 1 THEN sig[n] ELSE ""
        prev == IF n >= 2 THEN sig[n - 1] ELSE ""
        ended == tokens # <<>> /\ Last(tokens) = ""
    IN /\ (last = ")" /\ prev = "(") => Rejected("empty group")
       /\ (last = "|" /\ ~ended /\ prev \in {"", "(", "|"}) => Rejected("empty alternative")
       /\ (last = ")" /\ prev = "|") => Rejected("empty alternate")
       /\ (ended /\ last = "|") =>
             /\ pc = "error" /\ ast = NoRule
             /\ OpenGroups(tokens) = 0 => err.msg = "empty alternate"
       /\ (ended /\ n = 0) => Rejected("empty group")

C10_Witness ==
    /\ Rejected("empty alternate")
    /\ tokens # <<>>
    /\ Last(tokens) = ""
    /\ OpenGroups(tokens) = 0


\* the node type a quantifier token stands for
QuantifierOf(q) == IF q = "*" THEN "Star" ELSE IF q = "+" THEN "Plus" ELSE "Optional"
\* the last significant token scanned ("" at the start of the string)
LastSignificant(toks) ==
    LET sig == Significant(toks) IN IF sig = <<>> THEN "" ELSE Last(sig)
\* the step in which the scan meets the lexeme lex
Scans(lex) ==
    /\ pc = "parse"
    /\ tokens' # tokens
    /\ tokens' # <<>>
    /\ Last(tokens') = lex

\* C11: a quantifier token is rejected when the current sequence of the top
\* group is empty (start of the grammar, right after '(' or right after '|')
\* or when its last sibling is already a Star, Plus or Optional; otherwise the
\* last sibling is replaced by the quantifier wrapping it and everything else
\* (earlier siblings, closed alternatives, enclosing groups) is unchanged.
C11_QuantifierRule ==
    [][\A q \in {"*", "+", "?"} :
          Scans(q) =>
             LET top == Last(stack)
                 prev == LastSignificant(tokens)
             IN /\ (top.args = <<>>) <=> (prev \in {"", "(", "|"})
                /\ (top.args # <<>> /\ Last(top.args).type \in Quantifiers)
                      <=> (prev \in {"*", "+", "?"})
                /\ IF top.args = <<>> \/ Last(top.args).type \in Quantifiers
                   THEN pc' = "error" /\ err'.msg # "" /\ ast' = NoRule
                   ELSE /\ pc' = "parse"
                        /\ err' = NoErr
                        /\ Front(stack') = Front(stack)
                        /\ Len(stack') = Len(stack)
                        /\ Last(stack').alts = top.alts
                        /\ Len(Last(stack').args) = Len(top.args)
                        /\ Front(Last(stack').args) = Front(top.args)
                        /\ Last(Last(stack').args)
                              = [type |-> QuantifierOf(q), inner |-> Last(top.args)]]_vars

C11_Witness ==
    /\ pc = "parse"
    /\ Len(stack) = 2
    /\ LastSignificant(tokens) = "+"
    /\ Len(Last(stack).args) = 2
    /\ Last(stack).args[1].type = "Keyword"
    /\ Last(stack).args[2] = Plus(Variable("X"))


\* C12: a ')' met while only the root group is open makes the parse fail, so
\* an AST is returned only for strings of which no prefix holds more ')' than
\* '('.
C12_UnmatchedCloseFails ==
    [][/\ (Scans(")") /\ OpenGroups(tokens) = 0) => (pc' = "error" /\ ast' = NoRule)
       /\ (ast = NoRule /\ ast' # NoRule) =>
             \A n \in 0..Len(tokens) : OpenGroups(SubSeq(tokens, 1, n)) >= 0
       /\ (pc = "parse" /\ pc' = "parse") => OpenGroups(tokens') = Len(stack') - 1]_vars

C12_Witness ==
    /\ pc = "error"
    /\ err.msg = "Unmatched ')'"
    /\ ast = NoRule
    /\ Count(tokens, "(") = 1
    /\ Count(tokens, ")") = 2


\* C13: every error the grammar parser raises carries the character offset
\* of the offending token.
C13_ErrorsCarryOffset == pc = "error" => err.index >= 0

\* a double quantifier rejected with a message that holds no offset
C13_Witness ==
    /\ pc = "error"
    /\ err.msg = "Predicate already has quantifier"
    /\ err.index = -1
    /\ Len(Significant(tokens)) = 3


\* ---------------------------------------------------- claims on split_args
\* The roles of the characters of a string s, by position.  A quote opens a
\* quoted span when it is neither inside a span nor right after a character
\* of an unquoted token; a span opened at k is still open before i when the
\* quote character s[k] does not occur strictly between k and i.
RECURSIVE Opening(_, _), OpenBefore(_, _), Plain(_, _)
OpenBefore(s, i) ==
    {k \in 1..(i - 1) : Opening(s, k) /\ \A m \in (k + 1)..(i - 1) : s[m] # s[k]}
Inside(s, i) == OpenBefore(s, i) # {}
\* a character of an unquoted token
Plain(s, i) == ~Inside(s, i) /\ s[i] \notin Whitespace /\ ~Opening(s, i)
Opening(s, i) ==
    /\ s[i] \in Quotes
    /\ ~Inside(s, i)
    /\ ~(i > 1 /\ Plain(s, i - 1))
\* the position of the quote that closes the span opened at i (0 when none)
ClosingOf(s, i) ==
    LET later == {j \in (i + 1)..Len(s) : s[j] = s[i]}
    IN IF later = {} THEN 0 ELSE CHOOSE j \in later : \A m \in later : j <= m
\* the positions at which a token starts, and the number of the token that
\* starts at or before position i
Starts(s) ==
    {i \in 1..Len(s) : Opening(s, i) \/ (Plain(s, i) /\ ~(i > 1 /\ Plain(s, i - 1)))}
TokenNo(s, i) == Cardinality({p \in Starts(s) : p <= i})
\* the tokens of split_args: the list being built, or the list returned
SplitTokens == IF pc = "returned" THEN split_ret ELSE split_tokens

\* C14: the characters between an opening quote and the next occurrence of
\* the same quote character form exactly one token, without the two quotes
\* and with every inner character kept; whitespace outside quotes creates no
\* token and is in no token.
C14_QuotedSpanIsOneToken ==
    pc \in {"split", "returned"} =>
        /\ Len(SplitTokens) = Cardinality(Starts(string))
        /\ \A i \in 1..Len(string) :
              (Opening(string, i) /\ ClosingOf(string, i) # 0) =>
                 SplitTokens[TokenNo(string, i)] = SubSeq(string, i + 1, ClosingOf(string, i) - 1)
        /\ \A p \in Starts(string) :
              ~Opening(string, p) =>
                 \A c \in 1..Len(SplitTokens[TokenNo(string, p)]) :
                    SplitTokens[TokenNo(string, p)][c] \notin Whitespace
        /\ \A i \in 1..Len(string) :
              (string[i] \in Whitespace /\ ~Inside(string, i)) => i \notin Starts(string)

\* `" '"a` and the like: a closed quoted token holding whitespace and the
\* other quote character, followed by an unquoted token
C14_Witness ==
    /\ pc = "returned"
    /\ Len(split_ret) = 2
    /\ Len(split_ret[1]) = 2
    /\ \E c \in 1..2 : split_ret[1][c] \in Whitespace
    /\ \E c \in 1..2 : split_ret[1][c] \in Quotes
    /\ split_ret[2] = <<"a">>
    /\ in_quote = NotQuoted

\* the end of the unquoted token that starts at p: it runs up to the next
\* whitespace character or the end of the string
RunEnd(s, p) ==
    CHOOSE x \in p..Len(s) :
        /\ \A m \in p..x : s[m] \notin Whitespace
        /\ (x = Len(s) \/ s[x + 1] \in Whitespace)
\* the start of the token that holds position i
StartOf(s, i) == CHOOSE p \in Starts(s) : p <= i /\ \A r \in Starts(s) : r <= i => r <= p

\* C15: a quote character met inside an unquoted token is one more character
\* of that token and opens no quoted span: the token runs, quote included, up
\* to the next whitespace character.
C15_QuoteInsideTokenIsLiteral ==
    pc \in {"split", "returned"} =>
        \A i \in 2..Len(string) :
            (string[i] \in Quotes /\ Plain(string, i - 1)) =>
               LET p == StartOf(string, i)
               IN /\ ~Opening(string, i)
                  /\ ~Inside(string, i + 1)
                  /\ RunEnd(string, p) >= i
                  /\ SplitTokens[TokenNo(string, i)] = SubSeq(string, p, RunEnd(string, p))

\* `a'a a` and the like: a token holding a quote, ended by the whitespace
\* after it
C15_Witness ==
    /\ pc = "returned"
    /\ Len(split_ret) = 2
    /\ Len(split_ret[1]) = 3
    /\ split_ret[1][2] \in Quotes
    /\ split_ret[2] = <<"a">>
    /\ in_quote = NotQuoted

\* C16: split_args returns normally whatever the string: when a quote was
\* opened and never closed, the last token returned is made of all the
\* characters after that quote, whitespace included.
C16_UnterminatedQuote ==
    /\ pc = "split" => ENABLED SplitReturn
    /\ pc \in {"split", "returned"} =>
          \A i \in 1..Len(string) :
             (Opening(string, i) /\ ClosingOf(string, i) = 0) =>
                /\ in_quote = string[i]
                /\ SplitTokens # <<>>
                /\ Last(SplitTokens) = SubSeq(string, i + 1, Len(string))

\* `a "a ` and the like: the string ends inside a quote, after a whitespace
C16_Witness ==
    /\ pc = "returned"
    /\ in_quote # NotQuoted
    /\ Len(split_ret) = 2
    /\ Len(split_ret[2]) = 2
    /\ Last(split_ret[2]) \in Whitespace

\* the list re.split returns for the grammar string whose scan ends in this
\* step
WholeString == IF pc' = "ready" THEN tokens \o (IF LastIn(tokens, Words) THEN <<>> ELSE <<"">>)
               ELSE tokens'

C18_BuiltOnce ==
    [][/\ builds' <= 1
       /\ (pc = "ready" /\ pc' = "called" /\ builds = 0) =>
             (builds' = 1 /\ nfa' = to_nfa(ast) /\ nfa_id' = 1)
       /\ builds = 1 => (builds' = 1 /\ nfa' = nfa /\ nfa_id' = nfa_id)]_vars

\* the second line given to a grammar has been matched and annotated
C18_Witness ==
    /\ Done
    /\ builds = 1
    /\ nfa_id = 1
    /\ input = <<"a", "b">>
    /\ ast.alts # <<>>

\* C19: when two callers make the first use of a grammar at the same time,
\* to_nfa is executed at most once and the two callers are given the same
\* table object.
C19_InitializedOnce ==
    /\ builds <= 1
    /\ (\A t \in Threads : caller[t].pc = "returned") => caller[1].holds = caller[2].holds

\* both callers found no _nfa, each built a table, and each was given its own
C19_Witness ==
    /\ builds = 2
    /\ \A t \in Threads : caller[t].pc = "returned"
    /\ caller[1].holds # caller[2].holds

\* a well-formed table: it has a last state, which has no outgoing
\* transition, no state is the trace of a ValueError, and every successor
\* stored in a state is an index of the table
WellFormed(table) ==
    /\ table # <<>>
    /\ ~Raised(table)
    /\ Last(table).eps = <<>>
    /\ Last(table).edges = <<>>
    /\ \A i \in 1..Len(table) :
          /\ \A k \in 1..Len(table[i].eps) : table[i].eps[k] \in 0..(Len(table) - 1)
          /\ \A k \in 1..Len(table[i].edges) : table[i].edges[k].to \in 0..(Len(table) - 1)
          /\ table[i].eps # <<>> => table[i].edges = <<>>

\* every table a builder returns while to_nfa compiles the node
RECURSIVE Fragments(_)
Fragments(node) ==
    {to_nfa(node)} \cup
    (IF node.type = "Keyword" THEN {match_on(node.inner)}
     ELSE IF node.type = "Variable" THEN {match_on(ANY), plus(match_on(ANY))}
     ELSE IF node.type \in Quantifiers THEN Fragments(node.inner)
     ELSE IF node.args # <<>> THEN UNION {Fragments(node.args[k]) : k \in 1..Len(node.args)}
     ELSE UNION {{concat(MapToNfa(node.alts[a]))} \cup
                 UNION {Fragments(node.alts[a][k]) : k \in 1..Len(node.alts[a])}
                   : a \in 1..Len(node.alts)})

\* C20: every table a builder returns is well-formed when its arguments are:
\* the tables built while a parsed grammar is compiled, and the result of
\* each builder applied once more to any of them.
C20_BuildersKeepWellFormed ==
    pc = "ready" =>
        /\ WellFormed(concat(<<>>))
        /\ WellFormed(union(<<>>))
        /\ \A f \in Fragments(ast) :
              /\ WellFormed(f)
              /\ WellFormed(star(f))
              /\ WellFormed(plus(f))
              /\ WellFormed(optional(f))
              /\ WellFormed(emitter(f, ast))
              /\ \A g \in Fragments(ast) :
                    WellFormed(concat(<<f, g>>)) /\ WellFormed(union(<<f, g>>))

\* a compiled grammar of alternatives with a repetition in the first one
C20_Witness ==
    /\ pc = "ready"
    /\ nfa # <<>>
    /\ ast.alts # <<>>
    /\ \E k \in 1..Len(ast.alts[1]) : ast.alts[1][k].type = "Star"
    /\ WellFormed(nfa)
    /\ Len(nfa) >= 10

\* C21: in the automaton of a parsed grammar no state has both an epsilon
\* transition and a consuming edge, a state with a consuming edge has exactly
\* one, on a literal or on ANY, and _add_epsilon refuses a state that has a
\* consuming edge.
C21_EpsilonOrOneEdge ==
    pc = "ready" =>
        LET table == NfaProperty(nfa, ast)
        IN \A i \in 1..Len(table) :
              /\ ~(table[i].eps # <<>> /\ table[i].edges # <<>>)
              /\ Len(table[i].edges) <= 1
              /\ table[i].edges # <<>> =>
                    /\ table[i].edges[1].tok \in LowerWords \cup {ANY}
                    /\ table[i].edges[1].to \in 0..(Len(table) - 1)
                    /\ \A to \in 0..(Len(table) - 1) :
                          _add_epsilon(table[i], to) = State(<<ValueErrorMark>>, <<>>, <<>>)
              /\ table[i].edges = <<>> =>
                    _add_epsilon(table[i], 0).eps = Append(table[i].eps, 0)

\* a compiled grammar with a keyword, a variable and a quantifier
C21_Witness ==
    /\ pc = "ready"
    /\ nfa # <<>>
    /\ \E i \in 1..Len(nfa) : nfa[i].edges # <<>> /\ nfa[i].edges[1].tok = ANY
    /\ \E i \in 1..Len(nfa) : nfa[i].edges # <<>> /\ nfa[i].edges[1].tok = "b"
    /\ \E i \in 1..Len(nfa) : Len(nfa[i].eps) = 2
    /\ ast.args # <<>>

\* the transitions of a table: <<state, token, position, successor>>, an
\* epsilon transition under EPSILON
EdgesOf(table) ==
    UNION {{<<i - 1, EPSILON, k, table[i].eps[k]>> : k \in 1..Len(table[i].eps)} \cup
           {<<i - 1, table[i].edges[k].tok, k, table[i].edges[k].to>>
               : k \in 1..Len(table[i].edges)}
             : i \in 1..Len(table)}

\* shifted is table with every successor moved by k and nothing else changed
ShiftExact(table, shifted, k) ==
    /\ Len(shifted) = Len(table)
    /\ EdgesOf(shifted) = {<<e[1], e[2], e[3], e[4] + k>> : e \in EdgesOf(table)}
    /\ \A i \in 1..Len(table) : shifted[i].emit = table[i].emit

\* result holds table at offset: every transition and every EMIT tag of table,
\* moved by offset
SplicedAt(table, result, offset) ==
    /\ Len(result) >= Len(table) + offset
    /\ \A e \in EdgesOf(table) :
          <<e[1] + offset, e[2], e[3], e[4] + offset>> \in EdgesOf(result)
    /\ \A i \in 1..Len(table) : result[i + offset].emit = table[i].emit

\* C22: _shift_table(k) returns a table of the same length whose epsilon and
\* consuming successors are the original ones plus k and whose EMIT tags stay
\* on the same states; concat, union, star and optional hold each input
\* fragment edge for edge at its offset.
C22_ShiftIsExact ==
    pc = "ready" =>
        \A f \in Fragments(ast) :
            /\ \A k \in 0..Len(f) : ShiftExact(f, _shift_table(f, k), k)
            /\ SplicedAt(f, star(f), 1)
            /\ SplicedAt(f, optional(f), 1)
            /\ \A g \in Fragments(ast) :
                  /\ SplicedAt(f, concat(<<f, g>>), 0)
                  /\ SplicedAt(g, concat(<<f, g>>), Len(f))
                  /\ SplicedAt(f, union(<<f, g>>), 1)
                  /\ SplicedAt(g, union(<<f, g>>), 1 + Len(f))

\* a compiled sequence of a leaf and a repeated keyword: the keyword's
\* fragment is held by star at offset 1, and star's by concat behind the leaf
C22_Witness ==
    /\ pc = "ready"
    /\ nfa # <<>>
    /\ \E f, g \in Fragments(ast) :
          /\ star(f) \in Fragments(ast)
          /\ \E e \in EdgesOf(f) : e[2] \in LowerWords
          /\ \E e \in EdgesOf(f) : e[2] = EPSILON
          /\ nfa = concat(<<g, star(f)>>)
          /\ SplicedAt(star(f), nfa, Len(g))
          /\ Len(g) >= 3

\* the objects of the table: the list, its dicts and their successor lists
ObjectsOf(h, table) ==
    ({table} \cup {h[table].items[i] : i \in 1..Len(h[table].items)}
             \cup {h[h[table].items[i]].eps : i \in 1..Len(h[table].items)}) \ {NoList}

\* C23: every builder returns a new table, made of new objects only, and
\* leaves every object that existed before the call as it was, the tables of
\* its inputs among them.
C23_InputsUnchanged ==
    [][pc = "build" =>
          /\ \A id \in 1..Len(heap) : heap'[id] = heap[id]
          /\ \A x \in 1..Len(built) : Deref(heap', built[x]) = Deref(heap, built[x])
          /\ built' # built =>
                ObjectsOf(heap', Last(built')) \cap (1..Len(heap)) = {}]_vars

\* one fragment used in two compositions: plus of it, then the union of it
\* and of that plus; it is still the table match_on returned
C23_Witness ==
    /\ pc = "build"
    /\ Len(built) = 3
    /\ Deref(heap, built[1]) = match_on("a")
    /\ Deref(heap, built[2]) = plus(match_on("a"))
    /\ Deref(heap, built[3]) = union(<<match_on("a"), plus(match_on("a"))>>)

\* C24: in star(X) the new start has the epsilon transitions to X's start
\* and to the new accepting state, and X's old accepting state has exactly
\* two epsilon transitions: back to X's start at its new index, and forward
\* to the new accepting state.
C24_StarLoopsToInnerStart ==
    pc = "ready" =>
        \A f \in Fragments(ast) :
            star(f) \in Fragments(ast) =>
                LET table == star(f)
                    x_start == 1
                    x_accept == Len(f)
                    new_accept == Len(f) + 1
                IN /\ Len(table) = Len(f) + 2
                   /\ Range(table[1].eps) = {x_start, new_accept}
                   /\ Len(table[x_accept + 1].eps) = 2
                   /\ Range(table[x_accept + 1].eps) = {x_start, new_accept}

\* a compiled repetition whose old accepting state goes back to state 0, the
\* new start, rather than to state 1
C24_Witness ==
    /\ pc = "ready"
    /\ nfa # <<>>
    /\ \E f \in Fragments(ast) :
          /\ star(f) \in Fragments(ast)
          /\ star(f)[1].eps = <<1, Len(f) + 1>>
          /\ star(f)[Len(f) + 1].eps = <<0, Len(f) + 1>>

\* the Keyword and Variable leaves of the tree, from left to right
RECURSIVE Leaves(_), LeavesOfSeq(_), LeavesOfAlts(_)
Leaves(node) ==
    IF node.type \in {"Keyword", "Variable"} THEN <<node>>
    ELSE IF node.type \in Quantifiers THEN Leaves(node.inner)
    ELSE LeavesOfSeq(node.args) \o LeavesOfAlts(node.alts)

LeavesOfSeq(exprs) ==
    IF exprs = <<>> THEN <<>> ELSE Leaves(exprs[1]) \o LeavesOfSeq(Tail(exprs))

LeavesOfAlts(alts) ==
    IF alts = <<>> THEN <<>> ELSE LeavesOfSeq(alts[1]) \o LeavesOfAlts(Tail(alts))

\* the indices of the EMIT states of the table, in table order
RECURSIVE EmitStatesFrom(_, _)
EmitStatesFrom(table, i) ==
    IF i > Len(table) THEN <<>>
    ELSE (IF table[i].emit # <<>> THEN <<i - 1>> ELSE <<>>) \o EmitStatesFrom(table, i + 1)

EmitStates(table) == EmitStatesFrom(table, 1)

\* the fragment that matches the leaf, before emitter wraps it
LeafMatch(leaf) ==
    IF leaf.type = "Keyword" THEN match_on(leaf.inner) ELSE plus(match_on(ANY))

\* C25: the compiled table has exactly one EMIT state per Keyword or Variable
\* leaf of the tree, at any depth, tagged with that leaf; its only incoming
\* transition is the epsilon from the accepting state of the leaf's own
\* matching fragment, which stands right before it; groups and quantifiers
\* add no EMIT state.
C25_OneEmitPerLeaf ==
    pc = "ready" =>
        LET table == NfaProperty(nfa, ast)
            emits == EmitStates(table)
            leaves == Leaves(ast)
        IN /\ Len(emits) = Len(leaves)
           /\ \A n \in 1..Len(emits) :
                 LET e == emits[n]
                     match == LeafMatch(leaves[n])
                 IN /\ table[e + 1].emit = <<leaves[n]>>
                    /\ e >= Len(match)
                    /\ SplicedAt(match, table, e - Len(match))
                    /\ table[e].eps = <<e>>
                    /\ {x \in EdgesOf(table) : x[4] = e} = {<<e - 1, EPSILON, 1, e>>}

\* a keyword at the top level and a variable inside a repeated group
C25_Witness ==
    /\ pc = "ready"
    /\ nfa # <<>>
    /\ Len(ast.args) = 2
    /\ ast.args[1].type = "Keyword"
    /\ ast.args[2].type = "Star"
    /\ ast.args[2].inner.type = "Group"
    /\ Leaves(ast) = <<Keyword("a"), Variable("X")>>
    /\ EmitStates(nfa) = <<2, 7>>

\* the states annotate can hold between two tokens: state 0 and what
\* trans_emit yields, the successor of a consuming edge or the last state
HeldStates(table) ==
    {0, Len(table) - 1} \cup {e[4] : e \in {x \in EdgesOf(table) : x[2] # EPSILON}}

\* the largest number of EMIT states on an epsilon path that starts in the
\* state (a path ends where it would enter a state a second time)
RECURSIVE MaxEmits(_, _, _)
MaxEmits(table, state_index, chain) ==
    LET state == table[state_index + 1]
        onward == {MaxEmits(table, state.eps[k], chain \cup {state_index})
                      : k \in {j \in 1..Len(state.eps) : state.eps[j] \notin chain \cup {state_index}}}
    IN Len(state.emit) +
       (IF onward = {} THEN 0 ELSE CHOOSE m \in onward : \A o \in onward : o <= m)

\* C26: in the automaton of a parsed grammar every epsilon path trans_emit
\* follows between two consumed tokens passes at most one EMIT state, every
\* emits tuple it yields has length 0 or 1, and the unpacking `rule, = emits`
\* of annotate never fails.
C26_AtMostOneEmit ==
    /\ pc = "ready" =>
          LET table == NfaProperty(nfa, ast)
          IN \A s \in HeldStates(table) :
                /\ MaxEmits(table, s, {}) <= 1
                /\ \A token \in InputWords \cup {END} :
                      LET out == trans_emit(table, s, token, <<>>, {})
                      IN \A k \in 1..Len(out) : Len(out[k].emits) <= 1
    /\ Done => ares.kind # "ValueError"

\* a command line read by a keyword and a repeated keyword: three reductions,
\* each with one rule
C26_Witness ==
    /\ Done
    /\ ares.kind = "list"
    /\ \E k \in 1..Len(ast.args) : ast.args[k].type = "Star"
    /\ \E s \in 1..Len(ares.stacks) :
          Cardinality({k \in 1..Len(ares.stacks[s]) : ares.stacks[s][k].kind = "Parsed"}) = 3
    /\ \E s \in HeldStates(nfa) : MaxEmits(nfa, s, {}) = 1

\* the (state, stack) pairs annotate holds after i entries of toks; once a
\* step has run into the epsilon cycle the pairs stay as they are
RECURSIVE PathsAfter(_, _, _)
PathsAfter(table, toks, i) ==
    IF i = 0 THEN <<[state |-> 0, unpack |-> TRUE, stack |-> <<>>]>>
    ELSE LET prev == PathsAfter(table, toks, i - 1)
         IN IF \E p \in 1..Len(prev) : prev[p].state = Diverged THEN prev
            ELSE Flatten([p \in 1..Len(prev) |-> Advance(table, prev[p], toks[i])])

\* the step ran to its end
Live(paths) == \A p \in 1..Len(paths) : paths[p].state # Diverged

\* the stack with each Parsed record replaced by its claimed tokens
RECURSIVE FlatStack(_)
FlatStack(stk) ==
    IF stk = <<>> THEN <<>> ELSE stk[1].tokens \o FlatStack(Tail(stk))

\* the position of the last Parsed record of the stack, 0 when it has none
LastParsed(stk) ==
    LET at == {k \in 1..Len(stk) : stk[k].kind = "Parsed"}
    IN IF at = {} THEN 0 ELSE CHOOSE k \in at : \A j \in at : j <= k

\* C27: after annotate has consumed the first i tokens, the stack of every
\* live path, with each Parsed record replaced by its claimed tokens, is
\* those i tokens in input order; a reduction claims exactly the bare tokens
\* pushed since the previous Parsed record, in their order, and then pushes
\* the current token.
C27_TokenConservation ==
    Done =>
        LET toks == Append(input, END)
        IN \A i \in 0..Len(toks) :
              LET paths == PathsAfter(nfa, toks, i)
              IN Live(paths) =>
                   /\ \A p \in 1..Len(paths) :
                         FlatStack(paths[p].stack) = SubSeq(toks, 1, i)
                   /\ i < Len(toks) =>
                         \A p \in 1..Len(paths) :
                            LET old == paths[p].stack
                                out == trans_emit(nfa, paths[p].state, toks[i + 1], <<>>, {})
                                new == Advance(nfa, paths[p], toks[i + 1])
                                bare == SubSeq(old, LastParsed(old) + 1, Len(old))
                            IN \A k \in 1..Len(out) :
                                  out[k].to # Diverged =>
                                     new[k].stack =
                                        IF out[k].emits = <<>>
                                        THEN old \o <<StrEntry(toks[i + 1])>>
                                        ELSE SubSeq(old, 1, LastParsed(old))
                                             \o <<Parsed(out[k].emits[1], FlatStack(bare))>>
                                             \o <<StrEntry(toks[i + 1])>>

\* a variable has claimed two different tokens behind a keyword
C27_Witness ==
    /\ Done
    /\ ares.kind = "list"
    /\ input = <<"b", "a", "b">>
    /\ \E s \in 1..Len(ares.stacks) :
          /\ Len(ares.stacks[s]) = 3
          /\ ares.stacks[s][1] = Parsed(Keyword("b"), <<"b">>)
          /\ ares.stacks[s][2] = Parsed(Variable("X"), <<"a", "b">>)
    /\ ares.stacks = [p \in 1..Len(PathsAfter(nfa, Append(input, END), 4)) |->
                          PathsAfter(nfa, Append(input, END), 4)[p].stack]

\* C28: the list annotate returns holds no interpretation twice.
C28_NoDuplicates ==
    (Done /\ ares.kind = "list") =>
        \A i, j \in 1..Len(ares.stacks) : i # j => ares.stacks[i] # ares.stacks[j]

\* `a*` on one token: one reading, returned twice
C28_Witness ==
    /\ Done
    /\ ast = Group(<<Star(Keyword("a"))>>, <<>>)
    /\ input = <<"a">>
    /\ ares.kind = "list"
    /\ Len(ares.stacks) = 2
    /\ ares.stacks[1] = ares.stacks[2]
    /\ ares.stacks[1] = <<Parsed(Keyword("a"), <<"a">>), StrEntry(END)>>

\* C29: matches and annotate come to an end on every command line for every
\* grammar the parser accepts, a Star or Plus over a part that can match the
\* empty sequence included: the recursion of transition and trans_emit along
\* the epsilon transitions never enters a state again without end.
C29_ExecutorsTerminate ==
    Done => mres # "RecursionError" /\ ares.kind # "RecursionError"

\* `(a*)*`: both executors end in RecursionError
C29_Witness ==
    /\ Done
    /\ ast = Group(<<Star(Group(<<Star(Keyword("a"))>>, <<>>))>>, <<>>)
    /\ input = <<"a">>
    /\ mres = "RecursionError"
    /\ ares.kind = "RecursionError"

\* the tree is well-formed at every Group and no quantifier wraps a
\* quantifier
RECURSIVE WellFormedAst(_)
WellFormedAst(node) ==
    IF node.type \in {"Keyword", "Variable"} THEN TRUE
    ELSE IF node.type \in Quantifiers
    THEN node.inner.type \notin Quantifiers /\ WellFormedAst(node.inner)
    ELSE /\ \/ node.args # <<>> /\ node.alts = <<>>
            \/ /\ node.args = <<>>
               /\ Len(node.alts) >= 2
               /\ \A a \in 1..Len(node.alts) : node.alts[a] # <<>>
         /\ \A k \in 1..Len(node.args) : WellFormedAst(node.args[k])
         /\ \A a \in 1..Len(node.alts) :
               \A k \in 1..Len(node.alts[a]) : WellFormedAst(node.alts[a][k])

\* C30: every tree the parser returns is well-formed at every Group, the root
\* included: a non-empty sequence and no alternatives, or an empty current
\* sequence and at least two alternatives, none of them empty; and no Star,
\* Plus or Optional directly wraps a Star, Plus or Optional.
C30_AstWellFormed ==
    pc = "ready" => ast.type = "Group" /\ WellFormedAst(ast)

\* a returned tree whose root holds a sequence and whose inner group holds
\* two alternatives
C30_Witness ==
    /\ pc = "ready"
    /\ ast.alts = <<>>
    /\ Len(ast.args) = 1
    /\ ast.args[1].type = "Group"
    /\ ast.args[1].args = <<>>
    /\ Len(ast.args[1].alts) = 2
    /\ WellFormedAst(ast)

\* C31: while a grammar string is scanned the group stack is not empty when
\* a token is dispatched, after every prefix processed without error its
\* depth is 1 + (the '(' of the prefix minus its ')'), and a successful parse
\* ends with depth 1 and returns that root group.
C31_StackDepth ==
    [][/\ pc = "parse" => (stack # <<>> /\ Len(stack) = 1 + OpenGroups(tokens))
       /\ pc' = "parse" => (stack' # <<>> /\ Len(stack') = 1 + OpenGroups(tokens'))
       /\ (pc = "parse" /\ pc' = "ready") =>
             /\ Len(stack) = 1
             /\ OpenGroups(tokens) = 0
             /\ ast' = cleanup(stack[1]).group]_vars

\* a prefix with three '(' and one ')': depth 3
C31_Witness ==
    /\ pc = "parse"
    /\ Count(tokens, "(") = 3
    /\ Count(tokens, ")") = 1
    /\ Len(stack) = 3
    /\ stack[1].args # <<>>

\* the positions of toks at which no state is live any more
DeadAt(table, toks) == {k \in 1..Len(toks) : LiveAfter(table, toks, k) = {}}

\* C32: annotate raises ParseError exactly at the first token (END being the
\* last one) at which no live path has a successor; the error holds one Fail
\* record for each path live just before that token, equal records once,
\* each with a non-empty expected set; paths given up at earlier tokens add
\* nothing.
C32_ParseErrorAtFirstDeadToken ==
    Done =>
        LET toks == Append(input, END)
            dead == DeadAt(nfa, toks)
        IN /\ (ares.kind = "ParseError") <=> (dead # {})
           /\ dead # {} =>
                 LET f == FailPos(nfa, toks)
                     before == PathsAfter(nfa, toks, f - 1)
                 IN /\ Live(before)
                    /\ {before[p].state : p \in 1..Len(before)} = LiveAfter(nfa, toks, f - 1)
                    /\ ares.fails =
                          {Fail(ExpectedAt(nfa, before[p].state, toks[f]), toks[f])
                              : p \in 1..Len(before)}
                    /\ \A fl \in ares.fails : fl.expected # {}

\* `(a*)*` on the token b: no state is live after b, and annotate ends in
\* RecursionError
C32_Witness ==
    /\ Done
    /\ ast = Group(<<Star(Group(<<Star(Keyword("a"))>>, <<>>))>>, <<>>)
    /\ input = <<"b">>
    /\ DeadAt(nfa, Append(input, END)) = {1, 2}
    /\ ares.kind = "RecursionError"

\* the cumulative length of the entries of toks
RECURSIVE SumLen(_)
SumLen(toks) == IF toks = <<>> THEN 0 ELSE TokLen(toks[1]) + SumLen(Tail(toks))

\* the number of characters of the grammar string scanned: a None entry stands
\* for one whitespace character
RECURSIVE EndPos(_)
EndPos(toks) ==
    IF toks = <<>> THEN 0
    ELSE (IF toks[1] = NoneTok THEN 1 ELSE TokLen(toks[1])) + EndPos(Tail(toks))

\* C33: the index of an "Unmatched ')'" or "Unrecognized token" error is the
\* cumulative length of all the tokens of the split that precede the
\* offending token, and the index of the error for unclosed groups is the
\* position where the input ended.
C33_IndexIsCumulative ==
    pc = "error" =>
        /\ err.msg \in {"Unmatched ')'", "Unrecognized token"} =>
              err.index = SumLen(Front(tokens))
        /\ err.msg = UnclosedMsg => err.index = EndPos(tokens)

\* `a b)`: the ')' stands behind tokens of cumulative length 2 and is
\* reported at index 1
C33_Witness ==
    /\ pc = "error"
    /\ err.msg = "Unmatched ')'"
    /\ tokens = <<"a", NoneTok, "b", ")">>
    /\ SumLen(Front(tokens)) = 2
    /\ err.index = 1

\* an upper bound on the live paths, generous for command lines of at most
\* MaxTLen tokens
PathLimit == 16

\* C34: the (state, stack) pairs annotate keeps at one time never exceed the
\* upper bound; a step that would exceed it ends the call with a
\* bounded-resource error.
C34_LivePathsBounded ==
    Done =>
        \/ ares.kind = "ResourceError"
        \/ \A i \in 0..(Len(input) + 1) :
              LET paths == PathsAfter(nfa, Append(input, END), i)
              IN Live(paths) => Len(paths) <= PathLimit

\* two repeated variables on three tokens: annotate returns more stacks than
\* the bound
C34_Witness ==
    /\ Done
    /\ Len(input) = 3
    /\ ares.kind = "list"
    /\ Len(ares.stacks) > PathLimit
    /\ Len(ast.args) = 2
    /\ \A k \in 1..2 : ast.args[k] = Star(Variable("X"))

\* the tokens put one after the other
RECURSIVE Concat(_)
Concat(toks) == IF toks = <<>> THEN <<>> ELSE toks[1] \o Concat(Tail(toks))

\* the quote that closes a quoted span: it is inside the span and is the
\* character that opened it
Closing(s, i) == \E k \in OpenBefore(s, i) : s[i] = s[k]

\* the characters split_args is to remove: whitespace outside quoted spans,
\* opening quotes and closing quotes
Removed(s, i) ==
    \/ s[i] \in Whitespace /\ ~Inside(s, i)
    \/ Opening(s, i)
    \/ Closing(s, i)

\* the characters of s from position i on that are not removed
RECURSIVE KeptFrom(_, _)
KeptFrom(s, i) ==
    IF i > Len(s) THEN <<>>
    ELSE (IF Removed(s, i) THEN <<>> ELSE <<s[i]>>) \o KeptFrom(s, i + 1)

\* C35: the tokens of split_args, put one after the other, are the string
\* without the whitespace outside quoted spans and without the opening and
\* the closing quote of each quoted span; in_quote and in_token are never
\* set together.
C35_CharactersConserved ==
    pc \in {"split", "returned"} =>
        /\ Concat(SplitTokens) = KeptFrom(string, 1)
        /\ ~(in_quote # NotQuoted /\ in_token)

\* ` " "a` and the like: a whitespace removed, a quoted span that keeps its
\* whitespace and loses both quotes, and an unquoted token
C35_Witness ==
    /\ pc = "returned"
    /\ Len(string) = 5
    /\ string[1] \in Whitespace
    /\ Opening(string, 2)
    /\ Closing(string, 4)
    /\ Concat(split_ret) = <<string[3], string[5]>>
    /\ string[3] \in Whitespace
    /\ string[5] \in Letters

====
